---- MODULE Spec2Model ----
(***************************************************************************)
(* Calendar event interchange of unifyer: the iCalendar text parser        *)
(* (line splitting, unfolding, unescaping, date decoding, VEVENT blocks),  *)
(* the event and subscription stores kept in localStorage, and the         *)
(* subscription sync engine of src/pages/studio/tabs/CalendarTab.tsx.      *)
(*                                                                         *)
(* A JavaScript string is modelled as a sequence of characters.  A         *)
(* character is a TLA+ string: the one-character strings are themselves,   *)
(* a longer one ("SUMMARY", "VEVENT") stands for that fixed run of         *)
(* letters, which contains no separator, blank, colon, semicolon or        *)
(* backslash.                                                              *)
(***************************************************************************)
EXTENDS Integers, Sequences, FiniteSets, Bags, TLC

VARIABLES
    input,          \* the string handed to the function under study
    output,         \* what the function returned
    saved,          \* the value the input was built from / an earlier output
    stage,          \* which call has been made
    storedEvents,   \* localStorage['unifyer_calendar_events'] (JSON records)
    storedSubs,     \* localStorage['unifyer_calendar_subscriptions']
    syncs,          \* the syncSubscription calls suspended on an await (a bag)
    nextId,         \* the fresh event ids: for a sync, for the user
    clock,          \* the time, in replacements made so far
    settled,        \* the syncSubscription promise settled by the last step
    hist,           \* per subscription id ever given: what its syncs committed
    storedExams,    \* localStorage['unifyer_exams'], written outside this code
    viewEvents,     \* the events state of CalendarTab: what loadEvents set
    showEventModal, \* the editor is open
    selectedEvent   \* the event the editor was opened on: none or one

vars == <<input, output, saved, stage, storedEvents, storedSubs, syncs,
          nextId, clock, settled, hist, storedExams, viewEvents,
          showEventModal, selectedEvent>>

pureVars == <<input, output, saved, stage>>
uiVars == <<storedExams, viewEvents, showEventModal, selectedEvent>>
editorVars == <<showEventModal, selectedEvent>>
appVars == <<storedEvents, storedSubs, syncs, nextId, clock, settled, hist, uiVars>>

----------------------------------------------------------------------------
\* Characters

Backslash == "\\"
Comma == ","
Semicolon == ";"
Colon == ":"
Newline == "\n"
Return == "\r"
Space == " "
Tab == "\t"
LetterN == "n"

\* Bounds of the pure-function specifications.
MaxValueLen == 3
MaxTextLen == 4
MaxLines == 4

\* Bounds of the application: subscriptions ever created, syncSubscription
\* calls ever made, events the user adds or imports.
MaxSubs == 2
MaxInFlight == 2
MaxCommits == 2
MaxOwnEvents == 1

\* All strings over an alphabet, up to a length.
StringsUpTo(alphabet, n) == UNION {[1..k -> alphabet] : k \in 0..n}

RECURSIVE Concat(_)
Concat(seqs) == IF seqs = <<>> THEN <<>> ELSE Head(seqs) \o Concat(Tail(seqs))

\* Array.prototype.join / String concatenation with a separator.
RECURSIVE Join(_, _)
Join(lines, sep) ==
    IF lines = <<>> THEN <<>>
    ELSE IF Len(lines) = 1 THEN lines[1]
    ELSE lines[1] \o sep \o Join(Tail(lines), sep)

----------------------------------------------------------------------------
\* content.split(/\r\n|\n|\r/)

RECURSIVE SplitFrom(_, _, _, _)
SplitFrom(s, i, cur, acc) ==
    LET breaks == {k \in i..Len(s) : s[k] \in {Return, Newline}}
        k == CHOOSE b \in breaks : \A j \in breaks : b <= j
    IN IF breaks = {} THEN Append(acc, cur \o SubSeq(s, i, Len(s)))
       ELSE SplitFrom(s, IF s[k] = Return /\ k < Len(s) /\ s[k + 1] = Newline
                         THEN k + 2 ELSE k + 1,
                      <<>>, Append(acc, cur \o SubSeq(s, i, k - 1)))

SplitLines(content) == SplitFrom(content, 1, <<>>, <<>>)

\* An unfolder that knows the space but not the tab.
StartsWithSpace(line) == Len(line) > 0 /\ line[1] = Space

\* lines[i + 1].startsWith(' ') || lines[i + 1].startsWith('\t')
StartsWithBlank(line) == Len(line) > 0 /\ line[1] \in {Space, Tab}

\* A continuation appended with its leading blank.
WholeLine(line) == line

\* line.substring(1)
Substring1(line) == IF line = <<>> THEN <<>> ELSE Tail(line)

\* The inner while loop of the parser: absorbs the continuation lines that
\* follow lines[i]; returns the index of the last line absorbed and the
\* logical line.
RECURSIVE FoldFrom(_, _, _)
FoldFrom(lines, i, line) ==
    IF i + 1 <= Len(lines) /\ StartsWithBlank(lines[i + 1])
    THEN FoldFrom(lines, i + 1, line \o Substring1(lines[i + 1]))
    ELSE [last |-> i, line |-> line]

\* The logical lines the for loop walks through, each with the index of the
\* physical line it starts at.
RECURSIVE UnfoldFrom(_, _)
UnfoldFrom(lines, i) ==
    IF i > Len(lines) THEN <<>>
    ELSE LET f == FoldFrom(lines, i, lines[i])
         IN <<[head |-> i, line |-> f.line]>> \o UnfoldFrom(lines, f.last + 1)

LogicalLines(lines) ==
    LET spans == UnfoldFrom(lines, 1)
    IN [k \in 1..Len(spans) |-> spans[k].line]

Unfold(content) == LogicalLines(SplitLines(content))

----------------------------------------------------------------------------
\* Unescaping of text values

\* val.replace(/\\c/g, r) for one character c: a global regular-expression
\* replace scans left to right and never looks at what it has replaced.
RECURSIVE ReplaceEscape(_, _, _, _)
ReplaceEscape(s, i, c, r) ==
    IF i > Len(s) THEN <<>>
    ELSE IF s[i] = Backslash /\ i < Len(s) /\ s[i + 1] = c
        THEN <<r>> \o ReplaceEscape(s, i + 2, c, r)
    ELSE <<s[i]>> \o ReplaceEscape(s, i + 1, c, r)

\* A decoder that leaves the value as it is written.
keepEscapes(val) == val

\* unescapeValue of parseICalContent: four chained replaces.
unescapeValue(val) ==
    LET a == ReplaceEscape(val, 1, LetterN, Newline)
        b == ReplaceEscape(a, 1, Comma, Comma)
        c == ReplaceEscape(b, 1, Semicolon, Semicolon)
    IN ReplaceEscape(c, 1, Backslash, Backslash)

\* calendarService.ts, SUMMARY and DESCRIPTION: three chained replaces.
serviceUnescapeText(val) ==
    LET a == ReplaceEscape(val, 1, Comma, Comma)
        b == ReplaceEscape(a, 1, Semicolon, Semicolon)
    IN ReplaceEscape(b, 1, LetterN, Newline)

\* calendarService.ts, LOCATION: two chained replaces.
serviceUnescapeLocation(val) ==
    LET a == ReplaceEscape(val, 1, Comma, Comma)
    IN ReplaceEscape(a, 1, Semicolon, Semicolon)

\* The first importICalEvents of CalendarTab.tsx, SUMMARY and DESCRIPTION:
\* value.replace(/\\[,;n]/g, m => m === '\\n' ? '\n' : m[1])
RECURSIVE LegacyReplace(_, _)
LegacyReplace(s, i) ==
    IF i > Len(s) THEN <<>>
    ELSE IF s[i] = Backslash /\ i < Len(s) /\ s[i + 1] \in {Comma, Semicolon, LetterN}
        THEN <<IF s[i + 1] = LetterN THEN Newline ELSE s[i + 1]>>
             \o LegacyReplace(s, i + 2)
    ELSE <<s[i]>> \o LegacyReplace(s, i + 1)

legacyUnescapeText(val) == LegacyReplace(val, 1)

----------------------------------------------------------------------------
\* Optional values (undefined, or a value)

Undefined == [def |-> FALSE, val |-> <<>>]
UndefinedFlag == [def |-> FALSE, val |-> FALSE]
UndefinedId == [def |-> FALSE, val |-> 0]
UndefinedColor == [def |-> FALSE, val |-> ""]
Some(v) == [def |-> TRUE, val |-> v]

\* Numbers that may be NaN
NaN == [nan |-> TRUE, n |-> 0]
Num(n) == [nan |-> FALSE, n |-> n]

Digits == {"0", "1", "2", "3", "4", "5", "6", "7", "8", "9"}

DigitValue(c) ==
    CASE c = "0" -> 0 [] c = "1" -> 1 [] c = "2" -> 2 [] c = "3" -> 3
      [] c = "4" -> 4 [] c = "5" -> 5 [] c = "6" -> 6 [] c = "7" -> 7
      [] c = "8" -> 8 [] c = "9" -> 9

\* val.substring(from, to), both counted from 0
Substring(val, from, to) ==
    LET hi == IF to > Len(val) THEN Len(val) ELSE to
    IN IF from >= hi THEN <<>> ELSE SubSeq(val, from + 1, hi)

\* parseInt: blanks are skipped, then the leading digits are read; NaN when
\* there is none.
RECURSIVE ReadDigits(_, _, _, _)
ReadDigits(s, i, acc, any) ==
    IF i <= Len(s) /\ s[i] \in Digits
    THEN ReadDigits(s, i + 1, 10 * acc + DigitValue(s[i]), TRUE)
    ELSE IF any THEN Num(acc) ELSE NaN

RECURSIVE SkipBlanks(_, _)
SkipBlanks(s, i) ==
    IF i <= Len(s) /\ s[i] \in {Space, Tab} THEN SkipBlanks(s, i + 1) ELSE i

parseInt(s) == ReadDigits(s, SkipBlanks(s, 1), 0, FALSE)

\* parseInt(...) || 0
OrZero(x) == IF x.nan THEN 0 ELSE x.n

\* A Date object, held as the arguments it was constructed from: "local" for
\* new Date(y, m, d, ...), "utc" for new Date(Date.UTC(y, m, d, ...)); month
\* counts from 0.  A NaN argument gives Invalid Date.
InvalidDate ==
    [valid |-> FALSE, zone |-> "none", year |-> 0, month |-> 0, day |-> 0,
     hour |-> 0, minute |-> 0, second |-> 0]

\* The day number of a date of the proleptic Gregorian calendar, counted
\* from 1970-01-01, month from 1; and the date of a day number.
DaysFromCivil(year, month, day) ==
    LET y == IF month <= 2 THEN year - 1 ELSE year
        era == y \div 400
        yoe == y - era * 400
        mp == IF month > 2 THEN month - 3 ELSE month + 9
        doy == (153 * mp + 2) \div 5 + day - 1
        doe == yoe * 365 + yoe \div 4 - yoe \div 100 + doy
    IN era * 146097 + doe - 719468

CivilFromDays(days) ==
    LET z == days + 719468
        era == z \div 146097
        doe == z - era * 146097
        yoe == (doe - doe \div 1460 + doe \div 36524 - doe \div 146096) \div 365
        doy == doe - (365 * yoe + yoe \div 4 - yoe \div 100)
        mp == (5 * doy + 2) \div 153
        month == IF mp < 10 THEN mp + 3 ELSE mp - 9
    IN [year |-> yoe + era * 400 + (IF month <= 2 THEN 1 ELSE 0),
        month |-> month, day |-> doy - (153 * mp + 2) \div 5 + 1]

\* A year from 0 to 99 is taken as 1900 + year by new Date(y, m, ...) and
\* by Date.UTC(y, m, ...).
FullYear(year) == IF year >= 0 /\ year <= 99 THEN 1900 + year ELSE year

\* new Date(year, month, day, hour, minute, second) for zone "local" and
\* new Date(Date.UTC(...)) for zone "utc": an Invalid Date when a field is
\* NaN, otherwise the instant the fields denote in the zone, fields out of
\* their range carried over into the next unit.  The fields kept are those
\* of the instant in its zone, month from 0; the offset of the local zone
\* is taken as fixed.
MakeDate(zone, year, month, day, hour, minute, second) ==
    IF year.nan \/ month.nan \/ day.nan THEN InvalidDate
    ELSE LET months == FullYear(year.n) * 12 + month.n
             seconds == hour * 3600 + minute * 60 + second
             days == DaysFromCivil(months \div 12, (months % 12) + 1, 1)
                        + day.n - 1 + (seconds \div 86400)
             date == CivilFromDays(days)
             left == seconds % 86400
         IN [valid |-> TRUE, zone |-> zone, year |-> date.year,
             month |-> date.month - 1, day |-> date.day,
             hour |-> left \div 3600, minute |-> (left % 3600) \div 60,
             second |-> left % 60]

UndefinedDate == [def |-> FALSE, val |-> InvalidDate]

\* new Date(null): the epoch
EpochDate ==
    [valid |-> TRUE, zone |-> "utc", year |-> 1970, month |-> 0, day |-> 1,
     hour |-> 0, minute |-> 0, second |-> 0]

ValueDate == <<"VALUE=DATE">>

\* parts.some(p => p === 'VALUE=DATE')
IsDateOnly(parts) == \E k \in 1..Len(parts) : parts[k] = ValueDate

MonthIndex(x) == IF x.nan THEN NaN ELSE Num(x.n - 1)

\* val.endsWith('Z')
EndsWithZ(val) == Len(val) > 0 /\ val[Len(val)] = "Z"

\* parseDate of parseICalContent, and parseICalDate of calendarService.ts
parseDate(val, parts) ==
    LET year == parseInt(Substring(val, 0, 4))
        month == MonthIndex(parseInt(Substring(val, 4, 6)))
        day == parseInt(Substring(val, 6, 8))
        hour == OrZero(parseInt(Substring(val, 9, 11)))
        minute == OrZero(parseInt(Substring(val, 11, 13)))
        second == OrZero(parseInt(Substring(val, 13, 15)))
    IN IF IsDateOnly(parts) THEN MakeDate("local", year, month, day, 0, 0, 0)
       ELSE IF EndsWithZ(val) THEN MakeDate("utc", year, month, day, hour, minute, second)
       ELSE MakeDate("local", year, month, day, hour, minute, second)

\* parseDate of the first importICalEvents of CalendarTab.tsx: no seconds,
\* no UTC.
legacyParseDate(val, parts) ==
    LET year == parseInt(Substring(val, 0, 4))
        month == MonthIndex(parseInt(Substring(val, 4, 6)))
        day == parseInt(Substring(val, 6, 8))
        hour == OrZero(parseInt(Substring(val, 9, 11)))
        minute == OrZero(parseInt(Substring(val, 11, 13)))
    IN IF IsDateOnly(parts) THEN MakeDate("local", year, month, day, 0, 0, 0)
       ELSE MakeDate("local", year, month, day, hour, minute, 0)

----------------------------------------------------------------------------
\* The VEVENT block parser

BeginVEvent == <<"BEGIN", Colon, "VEVENT">>
EndVEvent == <<"END", Colon, "VEVENT">>
BeginVCalendar == <<"BEGIN", Colon, "VCALENDAR">>
EndVCalendar == <<"END", Colon, "VCALENDAR">>

DefaultColor == "#6366f1"

\* line.indexOf(':'), counted from 1; 0 when there is none
RECURSIVE IndexFrom(_, _, _)
IndexFrom(line, c, i) ==
    IF i > Len(line) THEN 0
    ELSE IF line[i] = c THEN i
    ELSE IndexFrom(line, c, i + 1)

IndexOfColon(line) == IndexFrom(line, Colon, 1)

\* key.split(';')
RECURSIVE SplitOn(_, _, _, _, _)
SplitOn(s, c, i, cur, acc) ==
    IF i > Len(s) THEN Append(acc, cur)
    ELSE IF s[i] = c THEN SplitOn(s, c, i + 1, <<>>, Append(acc, cur))
    ELSE SplitOn(s, c, i + 1, Append(cur, s[i]), acc)

KeyParts(line) == SplitOn(SubSeq(line, 1, IndexOfColon(line) - 1), Semicolon, 1, <<>>, <<>>)
LineValue(line) == SubSeq(line, IndexOfColon(line) + 1, Len(line))

\* The draft a BEGIN:VEVENT line opens.
NewDraft(subscriptionId, color) ==
    [title |-> Undefined, description |-> Undefined, startDate |-> UndefinedDate,
     endDate |-> UndefinedDate, allDay |-> UndefinedFlag, location |-> Undefined,
     type |-> IF subscriptionId.def THEN "subscription" ELSE "imported",
     color |-> IF color.def THEN color.val ELSE DefaultColor,
     subscriptionUrl |-> subscriptionId]

\* JavaScript truthiness of draft.title (a string) and draft.startDate (a Date)
TitleTruthy(draft) == draft.title.def /\ draft.title.val # <<>>
StartTruthy(draft) == draft.startDate.def

\* The three parsers of the repository differ in how they decode values.
Variants == {"tab", "service", "legacy"}

DecodeText(variant, value) ==
    CASE variant = "tab" -> unescapeValue(value)
      [] variant = "service" -> serviceUnescapeText(value)
      [] variant = "legacy" -> legacyUnescapeText(value)

DecodeLocation(variant, value) ==
    CASE variant = "tab" -> unescapeValue(value)
      [] variant = "service" -> serviceUnescapeLocation(value)
      [] variant = "legacy" -> value

DecodeDate(variant, value, parts) ==
    IF variant = "legacy" THEN legacyParseDate(value, parts)
    ELSE parseDate(value, parts)

\* switch (mainKey) of the parsers
SetProperty(variant, draft, line) ==
    LET keyParts == KeyParts(line)
        mainKey == keyParts[1]
        value == LineValue(line)
    IN CASE mainKey = <<"SUMMARY">> ->
              [draft EXCEPT !.title = Some(DecodeText(variant, value))]
         [] mainKey = <<"DESCRIPTION">> ->
              [draft EXCEPT !.description = Some(DecodeText(variant, value))]
         [] mainKey = <<"DTSTART">> ->
              [draft EXCEPT !.startDate = Some(DecodeDate(variant, value, keyParts)),
                            !.allDay = Some(IsDateOnly(keyParts))]
         [] mainKey = <<"DTEND">> ->
              [draft EXCEPT !.endDate = Some(DecodeDate(variant, value, keyParts))]
         [] mainKey = <<"LOCATION">> ->
              [draft EXCEPT !.location = Some(DecodeLocation(variant, value))]
         [] OTHER -> draft

\* A parser that forgets to ask for the start date.
EmitWhenTitled(events, draft) ==
    IF TitleTruthy(draft) THEN Append(events, draft) ELSE events

\* A parser that gives up what it has when a block has to be dropped.
EmitOrReset(events, draft) ==
    IF TitleTruthy(draft) /\ StartTruthy(draft) THEN Append(events, draft) ELSE <<>>

\* if (currentEvent.title && currentEvent.startDate) events.push(currentEvent)
EmitOnEnd(events, draft) ==
    IF TitleTruthy(draft) /\ StartTruthy(draft) THEN Append(events, draft) ELSE events

\* The body of the for loop for one logical line; st holds events,
\* currentEvent (null: cur.def = FALSE) and inEvent.
ParseLine(variant, st, line, subscriptionId, color) ==
    IF line = BeginVEvent
    THEN [st EXCEPT !.inEvent = TRUE,
                    !.cur = [def |-> TRUE, val |-> NewDraft(subscriptionId, color)]]
    ELSE IF line = EndVEvent /\ st.cur.def
    THEN [st EXCEPT !.inEvent = FALSE,
                    !.events = EmitOnEnd(st.events, st.cur.val),
                    !.cur = [def |-> FALSE, val |-> NewDraft(subscriptionId, color)]]
    ELSE IF st.inEvent /\ st.cur.def
    THEN IF IndexOfColon(line) = 0 THEN st
         ELSE [st EXCEPT !.cur.val = SetProperty(variant, st.cur.val, line)]
    ELSE st

\* A parser that flushes the open draft when the input is used up.
FlushAtEndOfInput(st) ==
    IF st.cur.def THEN EmitOnEnd(st.events, st.cur.val) ELSE st.events

\* What the loop returns when the input is used up: the events pushed so
\* far; currentEvent is dropped.
AtEndOfInput(st) == st.events

RECURSIVE ParseFrom(_, _, _, _, _, _)
ParseFrom(variant, lines, i, st, subscriptionId, color) ==
    IF i > Len(lines) THEN AtEndOfInput(st)
    ELSE LET f == FoldFrom(lines, i, lines[i])
         IN ParseFrom(variant, lines, f.last + 1,
                      ParseLine(variant, st, f.line, subscriptionId, color),
                      subscriptionId, color)

\* A parser that starts inside an event.
ParseStartOpen(subscriptionId, color) ==
    [events |-> <<>>, inEvent |-> TRUE,
     cur |-> [def |-> TRUE, val |-> NewDraft(subscriptionId, color)]]

ParseStart(subscriptionId, color) ==
    [events |-> <<>>, inEvent |-> FALSE,
     cur |-> [def |-> FALSE, val |-> NewDraft(subscriptionId, color)]]

ParseVariant(variant, content, subscriptionId, color) ==
    ParseFrom(variant, SplitLines(content), 1, ParseStart(subscriptionId, color),
              subscriptionId, color)

\* parseICalContent(content, subscriptionId?, color?)
parseICalContent(content, subscriptionId, color) ==
    ParseVariant("tab", content, subscriptionId, color)

----------------------------------------------------------------------------
\* The event store: a JSON array in localStorage

\* JSON.stringify of a Date field: an ISO string, null for Invalid Date, and
\* no key at all for undefined.
DateToJSON(d) ==
    IF ~d.def THEN [kind |-> "absent", date |-> InvalidDate]
    ELSE IF ~d.val.valid THEN [kind |-> "null", date |-> InvalidDate]
    ELSE [kind |-> "iso", date |-> d.val]

\* new Date(event.startDate)
StartFromJSON(j) ==
    CASE j.kind = "iso" -> Some(j.date)
      [] j.kind = "null" -> Some(EpochDate)
      [] j.kind = "absent" -> Some(InvalidDate)

\* event.endDate ? new Date(event.endDate) : undefined
EndFromJSON(j) == IF j.kind = "iso" THEN Some(j.date) ELSE UndefinedDate

ToJSON(event) ==
    [event EXCEPT !.startDate = DateToJSON(event.startDate),
                  !.endDate = DateToJSON(event.endDate)]

FromJSON(record) ==
    [record EXCEPT !.startDate = StartFromJSON(record.startDate),
                   !.endDate = EndFromJSON(record.endDate)]

getEvents(stored) == [k \in 1..Len(stored) |-> FromJSON(stored[k])]
saveEvents(events) == [k \in 1..Len(events) |-> ToJSON(events[k])]

\* { ...eventData, id }
WithId(eventData, id) == [id |-> id] @@ eventData

\* An add that skips a draft whose fields some stored event already has.
addEventOnce(stored, eventData, id) ==
    LET events == getEvents(stored)
        Same(e) == [f \in DOMAIN e \ {"id"} |-> e[f]] = FromJSON(ToJSON(eventData))
    IN IF SelectSeq(events, Same) # <<>> THEN stored
       ELSE saveEvents(Append(events, WithId(eventData, id)))

\* addEvent(eventData), the id being the fresh one: the store afterwards.
addEvent(stored, eventData, id) == saveEvents(Append(getEvents(stored), WithId(eventData, id)))

\* parsedEvents.map(e => addEvent(e)): the store afterwards, the ids being
\* firstId, firstId + 1, ...
RECURSIVE AddEach(_, _, _)
AddEach(stored, drafts, firstId) ==
    IF drafts = <<>> THEN stored
    ELSE AddEach(addEvent(stored, Head(drafts), firstId), Tail(drafts), firstId + 1)

\* The events the calls returned.
Added(drafts, firstId) == [k \in 1..Len(drafts) |-> WithId(drafts[k], firstId + k - 1)]

\* A merge in which the stored fields win.
KeepFields(event, eventData) ==
    [f \in DOMAIN event \cup DOMAIN eventData |->
        IF f \in DOMAIN event THEN event[f] ELSE eventData[f]]

\* events[index] = { ...events[index], ...eventData }
MergeFields(event, eventData) ==
    [f \in DOMAIN event \cup DOMAIN eventData |->
        IF f \in DOMAIN eventData THEN eventData[f] ELSE event[f]]

StoredIds(events) == {events[k].id : k \in 1..Len(events)}

\* events.findIndex(e => e.id === id), from 1; 0 when there is none
FindIndex(events, id) ==
    IF id \in StoredIds(events)
    THEN CHOOSE k \in 1..Len(events) :
            events[k].id = id /\ \A j \in 1..(k - 1) : events[j].id # id
    ELSE 0

\* updateEventInStorage(id, eventData) of CalendarTab: the store afterwards
updateEventInStorage(stored, id, eventData) ==
    LET events == getEvents(stored)
        index == FindIndex(events, id)
    IN IF index # 0
       THEN saveEvents([events EXCEPT ![index] = MergeFields(@, eventData)])
       ELSE stored

\* updateEvent(id, eventData) of calendarService.ts: the store afterwards
\* and the result, null (no event) or the updated event
updateEvent(stored, id, eventData) ==
    LET events == getEvents(stored)
        index == FindIndex(events, id)
        updated == MergeFields(events[index], eventData)
    IN IF index = 0 THEN [stored |-> stored, result |-> <<>>]
       ELSE [stored |-> saveEvents([events EXCEPT ![index] = updated]),
             result |-> <<updated>>]

\* events.filter(e => e.id !== id)
WithoutId(events, id) ==
    LET Keep(e) == e.id # id
    IN SelectSeq(events, Keep)

\* deleteEventFromStorage(id) of CalendarTab: the store afterwards
deleteEventFromStorage(stored, id) == saveEvents(WithoutId(getEvents(stored), id))

\* deleteEvent(id) of calendarService.ts: the store afterwards and the result
deleteEvent(stored, id) ==
    LET events == getEvents(stored)
        filtered == WithoutId(events, id)
    IN IF Len(filtered) = Len(events) THEN [stored |-> stored, result |-> FALSE]
       ELSE [stored |-> saveEvents(filtered), result |-> TRUE]

\* `exam_${exam.id}`: the ids derived from exams, apart from the ids of
\* addEvent.
ExamPrefix == 1000
ExamEventId(examId) == ExamPrefix + examId

\* The event getExamsAsEvents derives from an exam that has a name and a
\* date and nothing else.
ExamAsEvent(exam) ==
    [id |-> ExamEventId(exam.id),
     title |-> Some(<<"exam-sign", Space>> \o exam.name),
     description |-> Some(<<"Exam for Course">>),
     startDate |-> Some(exam.date), endDate |-> UndefinedDate,
     allDay |-> [def |-> TRUE, val |-> TRUE], location |-> Undefined,
     type |-> "exam", color |-> "#ef4444", subscriptionUrl |-> UndefinedId]

getExamsAsEvents(exams) == [k \in 1..Len(exams) |-> ExamAsEvent(exams[k])]

\* A merge that lets the stored events through unfiltered.
loadAllEvents(stored, exams) == getEvents(stored) \o getExamsAsEvents(exams)

\* loadEvents: what setEvents is given
loadEvents(stored, exams) ==
    LET examEvents == getExamsAsEvents(exams)
        examIds == StoredIds(examEvents)
        NotExam(e) == e.id \notin examIds
    IN SelectSeq(getEvents(stored), NotExam) \o examEvents

----------------------------------------------------------------------------
\* The state when the component is mounted

\* An id is `event_${Date.now()}_${random}`, fresh whenever it is made.  The
\* ids a sync gives are drawn from 1, 2, ... and the ids given to what the
\* user adds or imports from -1, -2, ...
FirstIds == [sync |-> 1, user |-> -1]
TakeSyncIds(ids, n) == [ids EXCEPT !.sync = @ + n]
TakeUserIds(ids, n) == [ids EXCEPT !.user = @ - n]
\* The first of the n ids taken by TakeUserIds, counting upwards.
FirstUserId(ids, n) == ids.user - n + 1

NoResponse == [status |-> "none", text |-> <<>>]
NoneSettled ==
    [sub |-> 0, ok |-> TRUE, response |-> NoResponse, by |-> "none", rest |-> <<>>,
     sawEdit |-> <<>>]

\* The component is mounted on an empty localStorage.
AppInit ==
    /\ storedEvents = <<>>
    /\ storedSubs = <<>>
    /\ syncs = EmptyBag
    /\ nextId = FirstIds
    /\ clock = 0
    /\ settled = NoneSettled
    /\ hist = <<>>
    /\ storedExams = <<>>
    /\ viewEvents = <<>>
    /\ showEventModal = FALSE
    /\ selectedEvent = <<>>

----------------------------------------------------------------------------
\* Specifications of the pure functions

\* --- the unescapers ---

EscapeAlphabet == {Backslash, Comma, Semicolon, Newline, LetterN}

\* The writer's side of the escaping: what a producer of iCalendar text does
\* to a value.
RECURSIVE Escape(_)
Escape(s) ==
    IF s = <<>> THEN <<>>
    ELSE (CASE Head(s) = Backslash -> <<Backslash, Backslash>>
            [] Head(s) = Comma -> <<Backslash, Comma>>
            [] Head(s) = Semicolon -> <<Backslash, Semicolon>>
            [] Head(s) = Newline -> <<Backslash, LetterN>>
            [] OTHER -> <<Head(s)>>) \o Escape(Tail(s))

InitUnescape ==
    /\ AppInit
    /\ \E s \in StringsUpTo(EscapeAlphabet, MaxValueLen) :
          /\ saved = s
          /\ input \in {s, Escape(s)}
    /\ output = <<>>
    /\ stage = "value"

CallUnescape(name, result) ==
    /\ stage = "value"
    /\ output' = result
    /\ stage' = name
    /\ UNCHANGED <<input, saved>>
    /\ UNCHANGED appVars

CallUnescapeValue == CallUnescape("unescapeValue", unescapeValue(input))
CallServiceText == CallUnescape("serviceText", serviceUnescapeText(input))
CallServiceLocation == CallUnescape("serviceLocation", serviceUnescapeLocation(input))
CallLegacyText == CallUnescape("legacyText", legacyUnescapeText(input))

NextUnescape ==
    \/ CallUnescapeValue
    \/ CallServiceText
    \/ CallServiceLocation
    \/ CallLegacyText

SpecUnescape == InitUnescape /\ [][NextUnescape]_vars

\* --- the unfolder ---

TextAlphabet == {Return, Newline, Space, Tab, "a"}
LineBreaks == {<<Newline>>, <<Return>>, <<Return, Newline>>}

InitUnfold ==
    /\ AppInit
    /\ input \in StringsUpTo(TextAlphabet, MaxTextLen)
    /\ output = <<>>
    /\ saved = <<>>
    /\ stage = "text"

CallUnfold ==
    /\ stage = "text"
    /\ output' = Unfold(input)
    /\ stage' = "unfolded"
    /\ UNCHANGED <<input, saved>>
    /\ UNCHANGED appVars

\* The logical lines are written out again, one per line, and unfolded;
\* saved receives the second result.
CallUnfoldAgain ==
    /\ stage = "unfolded"
    /\ \E br \in LineBreaks : saved' = Unfold(Join(output, br))
    /\ stage' = "unfoldedAgain"
    /\ UNCHANGED <<input, output>>
    /\ UNCHANGED appVars

NextUnfold ==
    \/ CallUnfold
    \/ CallUnfoldAgain

SpecUnfold == InitUnfold /\ [][NextUnfold]_vars

\* --- the block parsers ---

\* The physical lines the documents are made of.
LineBegin == BeginVEvent
LineEnd == EndVEvent
LineSummary == <<"SUMMARY", Colon, "a">>
LineSummaryEmpty == <<"SUMMARY", Colon>>
LineStart == <<"DTSTART", Semicolon, "VALUE=DATE", Colon,
               "2", "0", "2", "5", "0", "5", "2", "2">>
LineContinued == <<Space, "b">>
LineOther == <<"X-NOTE">>

LineCatalog ==
    {LineBegin, LineEnd, LineSummary, LineSummaryEmpty, LineStart,
     LineContinued, LineOther}

InitParse ==
    /\ AppInit
    /\ \E doc \in StringsUpTo(LineCatalog, MaxLines) :
          /\ saved = doc
          /\ input = Join(doc, <<Newline>>)
    /\ output = <<>>
    /\ stage = "content"

\* parseICalContent(content)
CallParseICalContent ==
    /\ stage = "content"
    /\ output' = parseICalContent(input, UndefinedId, UndefinedColor)
    /\ stage' = "tab"
    /\ UNCHANGED <<input, saved>>
    /\ UNCHANGED appVars

\* An importICalEvents that parses by itself and adds what it parsed.
CallImport(variant) ==
    /\ stage = "content"
    /\ LET parsed == ParseVariant(variant, input, UndefinedId, UndefinedColor)
           first == FirstUserId(nextId, Len(parsed))
       IN /\ storedEvents' = AddEach(storedEvents, parsed, first)
          /\ nextId' = TakeUserIds(nextId, Len(parsed))
          /\ output' = Added(parsed, first)
    /\ stage' = variant
    /\ UNCHANGED <<input, saved>>
    /\ UNCHANGED <<storedSubs, syncs, clock, settled, hist>>
    /\ UNCHANGED uiVars

\* importICalEvents of calendarService.ts
CallServiceImport == CallImport("service")

\* the first importICalEvents of CalendarTab.tsx
CallLegacyImport == CallImport("legacy")

NextParse ==
    \/ CallParseICalContent
    \/ CallServiceImport
    \/ CallLegacyImport

SpecParse == InitParse /\ [][NextParse]_vars

----------------------------------------------------------------------------
\* The subscription store and the sync engine

\* A subscription record; name and url are carried along unread, what a
\* fetch of the url returns is the network's choice.
NewSubscription(id, color) ==
    [id |-> id, color |-> color, enabled |-> TRUE,
     lastSync |-> [def |-> FALSE, val |-> 0]]

SubscriptionColors == {"#8b5cf6"}

\* The documents a remote calendar or an uploaded file may hold.
DocHtml == <<"<html>">>
DocOne ==
    Join(<<BeginVCalendar, BeginVEvent, LineSummary, LineStart, EndVEvent,
           EndVCalendar>>, <<Newline>>)
DocTwo ==
    Join(<<BeginVCalendar,
           BeginVEvent, <<"SUMMARY", Colon, "b">>, <<"DTSTART", Colon, "soon">>,
           EndVEvent,
           BeginVEvent, <<"SUMMARY", Colon, "c">>, LineStart, EndVEvent,
           EndVCalendar>>, <<Newline>>)

Documents == {DocHtml, DocOne, DocTwo}

\* A check of the marker that every text passes.
IncludesAnything(content) == TRUE

\* content.includes('BEGIN:VCALENDAR')
IncludesMarker(content) ==
    \E i \in 1..(Len(content) - 2) : SubSeq(content, i, i + 2) = BeginVCalendar

SubIds(subs) == {subs[k].id : k \in 1..Len(subs)}

\* A filter that keeps only the events without a subscription source id.
OfNoSubscription(events, id) ==
    LET Keep(e) == ~e.subscriptionUrl.def
    IN SelectSeq(events, Keep)

\* events.filter(e => e.subscriptionUrl !== id)
NotOfSubscription(events, id) ==
    LET Keep(e) == ~(e.subscriptionUrl.def /\ e.subscriptionUrl.val = id)
    IN SelectSeq(events, Keep)

\* subscriptions.filter(s => s.id !== id)
WithoutSubscription(subs, id) ==
    LET Keep(sub) == sub.id # id
    IN SelectSeq(subs, Keep)

\* deleteSubscription(id): the subscriptions and the events afterwards
deleteSubscriptionSubs(subs, id) == WithoutSubscription(subs, id)

\* A deletion that removes the events of every subscription.
deleteSubscribedEvents(stored, id) ==
    LET Keep(e) == ~e.subscriptionUrl.def
    IN saveEvents(SelectSeq(getEvents(stored), Keep))

deleteSubscriptionEvents(stored, id) ==
    saveEvents(NotOfSubscription(getEvents(stored), id))

\* A first step of the replacement that saves none of the stored events,
\* as a sync does that writes over what the handlers stored meanwhile.
RemoveAllEvents(stored, id) == saveEvents(<<>>)

\* A first step of the replacement that removes nothing.
RemoveNoEvents(stored, id) == stored

\* Lines 1180-1183 of syncSubscription: the old events of the subscription
\* are removed and the rest is saved.
RemoveOldEvents(stored, id) == saveEvents(NotOfSubscription(getEvents(stored), id))

\* parseICalContent over the documents the model draws from, as a table.
ParsedDocuments ==
    [content \in Documents, id \in 1..MaxSubs, color \in SubscriptionColors |->
        parseICalContent(content, Some(id), Some(color))]

ParsedFiles ==
    [content \in Documents |-> parseICalContent(content, UndefinedId, UndefinedColor)]

\* A sync that adds what it parsed to what the store holds.
MergeEvents(stored, sub, color, content, firstId) ==
    AddEach(stored, ParsedDocuments[content, sub, color], firstId)

\* Lines 1180-1187 of syncSubscription: the store after the replacement, the
\* new events taking the ids firstId, firstId + 1, ...
ReplaceEvents(stored, sub, color, content, firstId) ==
    AddEach(RemoveOldEvents(stored, sub), ParsedDocuments[content, sub, color], firstId)

\* Lines 1189-1195 of syncSubscription: the subscription, if it is still
\* stored, is stamped.
\* A stamp that stores the subscription again when it is gone.
StampOrRestore(subs, id, now) ==
    IF id \in SubIds(subs)
    THEN [k \in 1..Len(subs) |->
            IF subs[k].id = id
            THEN [subs[k] EXCEPT !.lastSync = [def |-> TRUE, val |-> now]]
            ELSE subs[k]]
    ELSE Append(subs, [id |-> id, color |-> "#8b5cf6", enabled |-> TRUE,
                       lastSync |-> [def |-> TRUE, val |-> now]])

\* A stamp that lands on every stored subscription.
StampEverySubscription(subs, id, now) ==
    [k \in 1..Len(subs) |-> [subs[k] EXCEPT !.lastSync = [def |-> TRUE, val |-> now]]]

StampSubscription(subs, id, now) ==
    [k \in 1..Len(subs) |->
        IF subs[k].id = id
        THEN [subs[k] EXCEPT !.lastSync = [def |-> TRUE, val |-> now]]
        ELSE subs[k]]

\* --- the suspended calls ---

RECURSIVE SumCopies(_, _)
SumCopies(S, bag) ==
    IF S = {} THEN 0
    ELSE LET c == CHOOSE x \in S : TRUE
         IN CopiesIn(c, bag) + SumCopies(S \ {c}, bag)

\* The bag with F applied to each of its elements.
MapBag(F(_), bag) ==
    LET S == BagToSet(bag)
    IN [x \in {F(c) : c \in S} |-> SumCopies({c \in S : F(c) = x}, bag)]

InFlight == BagToSet(syncs)

\* A syncSubscription(subscription) call that has just issued its fetch.
\* rest: for a call made by syncAll, the subscriptions of its snapshot that
\* are still to come; for a call made by a handler, none.  by: "syncAll" or
\* "handler", who awaits the call.  sawCommit, orphaned: whether, while this
\* call was suspended, another sync of the subscription committed, and
\* whether the subscription was deleted.  sawEdit: the last addition, update
\* or deletion of an event that a handler made while this call was
\* suspended, if there was one.
NewCall(sub, rest, by) ==
    [sub |-> sub.id, color |-> sub.color, at |-> "fetch", rest |-> rest,
     by |-> by, sawCommit |-> FALSE, orphaned |-> FALSE, sawEdit |-> <<>>]

\* What a handler did to the event with this id: the kind of the operation
\* and the event as the store holds it afterwards, none after a deletion.
WithIdOnly(events, id) ==
    LET Is(e) == e.id = id
    IN SelectSeq(events, Is)
Edit(kind, id, stored) ==
    <<[kind |-> kind, id |-> id, left |-> WithIdOnly(getEvents(stored), id)]>>

\* The suspended calls once a handler has made this edit.
SawEdit(bag, edit) ==
    LET Mark(c) == [c EXCEPT !.sawEdit = edit]
    IN MapBag(Mark, bag)

Snapshot(subs) ==
    [k \in 1..Len(subs) |->
        [id |-> subs[k].id, color |-> subs[k].color, enabled |-> subs[k].enabled]]

\* syncAll from the subscription at the head of snapshot on: the disabled
\* ones are skipped, the first enabled one is synced and the loop waits.
RECURSIVE ContinueBatch(_, _)
ContinueBatch(bag, snapshot) ==
    IF snapshot = <<>> THEN bag
    ELSE IF Head(snapshot).enabled
        THEN bag (+) SetToBag({NewCall(Head(snapshot), Tail(snapshot), "syncAll")})
    ELSE ContinueBatch(bag, Tail(snapshot))

\* The effect on subscriptions.length: syncAll over the list just loaded.
RunSyncAllEffect(bag, subs) ==
    IF Len(subs) > 0 THEN ContinueBatch(bag, Snapshot(subs)) ELSE bag

EnabledCount(subs) == Cardinality({k \in 1..Len(subs) : subs[k].enabled})

\* The calls left when call c has settled: the awaiting caller goes on, and
\* syncAll goes on to its next subscription.
AfterSettled(bag, c) == ContinueBatch(bag (-) SetToBag({c}), c.rest)

\* The promise of call c settles: ok, or rejected with what it threw.
\* response: what the network gave the call.
\* by, rest: who awaited the call and what syncAll had still to come.
Settle(c, ok, response) ==
    [sub |-> c.sub, ok |-> ok, response |-> response, by |-> c.by, rest |-> c.rest,
     sawEdit |-> c.sawEdit]

\* Whether the caller that awaited call c calls loadEvents() when c has
\* settled: syncAll after its last subscription, whatever the outcome, a
\* handler after a sync that succeeded.
RECURSIVE NoneEnabled(_)
NoneEnabled(snapshot) ==
    snapshot = <<>> \/ (~Head(snapshot).enabled /\ NoneEnabled(Tail(snapshot)))
Reloads(c, ok) == IF c.by = "syncAll" THEN NoneEnabled(c.rest) ELSE ok
otherUiVars == <<storedExams, showEventModal, selectedEvent>>

\* --- the history kept for the properties ---

\* commits: the texts of the last two replacements; overlapped: the last one
\* was made by a call that was suspended during the one before; late: a call
\* that was suspended when the subscription was deleted has settled.
NoHistory == [commits |-> <<>>, overlapped |-> FALSE, late |-> FALSE]

LastTwo(commits, content) ==
    IF commits = <<>> THEN <<content>> ELSE <<commits[Len(commits)], content>>

----------------------------------------------------------------------------
\* The handlers of CalendarTab

\* The component is mounted on an empty localStorage; no function is under
\* study.
Init ==
    /\ AppInit
    /\ input = <<>>
    /\ output = <<>>
    /\ saved = <<>>
    /\ stage = "app"

\* handleAddSubscription: the subscription is stored, its sync is started,
\* and the effect on subscriptions.length starts syncAll.
HandleAddSubscription ==
    /\ Len(hist) < MaxSubs
    /\ \E color \in SubscriptionColors :
          LET sub == NewSubscription(Len(hist) + 1, color)
              subs == Append(storedSubs, sub)
              own == syncs (+) SetToBag({NewCall(sub, <<>>, "handler")})
              calls == RunSyncAllEffect(own, subs)
          IN /\ BagCardinality(calls) <= MaxInFlight
             /\ storedSubs' = subs
             /\ syncs' = calls
    /\ hist' = Append(hist, NoHistory)
    /\ settled' = NoneSettled
    /\ UNCHANGED <<storedEvents, nextId, clock>>
    /\ UNCHANGED pureVars
    /\ UNCHANGED uiVars

\* handleDeleteSubscription, confirmed by the user: the subscription and its
\* events are deleted, and the effect on subscriptions.length starts syncAll
\* over the subscriptions that are left.
HandleDeleteSubscription ==
    \E id \in SubIds(storedSubs) :
        LET subs == deleteSubscriptionSubs(storedSubs, id)
            Orphan(c) == IF c.sub = id THEN [c EXCEPT !.orphaned = TRUE] ELSE c
            calls == RunSyncAllEffect(MapBag(Orphan, syncs), subs)
        IN /\ BagCardinality(calls) <= MaxInFlight
           /\ storedSubs' = subs
           /\ storedEvents' = deleteSubscriptionEvents(storedEvents, id)
           /\ syncs' = calls
           /\ settled' = NoneSettled
           /\ viewEvents' = loadEvents(storedEvents', storedExams)
           /\ UNCHANGED <<nextId, clock, hist>>
           /\ UNCHANGED pureVars
           /\ UNCHANGED otherUiVars

\* handleSyncSubscription, from the Sync button of a listed subscription.
HandleSyncSubscription ==
    /\ BagCardinality(syncs) < MaxInFlight
    /\ \E k \in 1..Len(storedSubs) :
          syncs' = syncs (+) SetToBag({NewCall(storedSubs[k], <<>>, "handler")})
    /\ settled' = NoneSettled
    /\ UNCHANGED <<storedEvents, storedSubs, nextId, clock, hist>>
    /\ UNCHANGED pureVars
    /\ UNCHANGED uiVars

\* A throw that syncAll does not catch: the loop is left, nothing is
\* reloaded.
ThrowThrough(c, response) ==
    /\ syncs' = syncs (-) SetToBag({c})
    /\ settled' = Settle(c, FALSE, response)
    /\ hist' = [hist EXCEPT ![c.sub].late = @ \/ c.orphaned]
    /\ UNCHANGED <<storedEvents, storedSubs, nextId, clock>>
    /\ UNCHANGED pureVars
    /\ UNCHANGED uiVars

\* The call throws: nothing is stored, the promise is rejected.
Throw(c, response) ==
    /\ syncs' = AfterSettled(syncs, c)
    /\ settled' = Settle(c, FALSE, response)
    /\ hist' = [hist EXCEPT ![c.sub].late = @ \/ c.orphaned]
    /\ viewEvents' = IF Reloads(c, FALSE) THEN loadEvents(storedEvents, storedExams)
                     ELSE viewEvents
    /\ UNCHANGED <<storedEvents, storedSubs, nextId, clock>>
    /\ UNCHANGED pureVars
    /\ UNCHANGED otherUiVars

\* await fetch(proxyUrl) settles: rejected, answered with a status that is
\* not ok, or answered ok; response.text() is awaited next.
FetchSettles ==
    \E c \in InFlight :
        /\ c.at = "fetch"
        /\ \E outcome \in {"rejected", "notOk", "ok"} :
              IF outcome = "ok"
              THEN /\ syncs' = (syncs (-) SetToBag({c}))
                                (+) SetToBag({[c EXCEPT !.at = "text"]})
                   /\ settled' = NoneSettled
                   /\ UNCHANGED <<storedEvents, storedSubs, nextId, clock, hist>>
                   /\ UNCHANGED pureVars
                   /\ UNCHANGED uiVars
              ELSE Throw(c, [status |-> outcome, text |-> <<>>])

\* await response.text() is rejected.
TextFails ==
    \E c \in InFlight :
        /\ c.at = "text"
        /\ Throw(c, [status |-> "noText", text |-> <<>>])

\* Lines 1176-1197 of syncSubscription, run without suspension once the
\* text is there.
CommitSync(c, content) ==
    LET parsed == ParsedDocuments[content, c.sub, c.color]
        SawCommit(d) == IF d.sub = c.sub THEN [d EXCEPT !.sawCommit = TRUE] ELSE d
    IN /\ clock < MaxCommits
       /\ storedEvents' = ReplaceEvents(storedEvents, c.sub, c.color, content, nextId.sync)
       /\ nextId' = TakeSyncIds(nextId, Len(parsed))
       /\ storedSubs' = StampSubscription(storedSubs, c.sub, clock + 1)
       /\ clock' = clock + 1
       /\ syncs' = AfterSettled(MapBag(SawCommit, syncs (-) SetToBag({c}))
                                    (+) SetToBag({c}), c)
       /\ settled' = Settle(c, TRUE, [status |-> "ok", text |-> content])
       /\ hist' = [hist EXCEPT ![c.sub] =
                     [commits |-> LastTwo(@.commits, content),
                      overlapped |-> c.sawCommit,
                      late |-> @.late \/ c.orphaned]]
       /\ viewEvents' = IF Reloads(c, TRUE) THEN loadEvents(storedEvents', storedExams)
                        ELSE viewEvents
       /\ UNCHANGED pureVars
       /\ UNCHANGED otherUiVars

\* await response.text() gives the text.
TextArrives ==
    \E c \in InFlight :
        /\ c.at = "text"
        /\ \E content \in Documents :
              IF IncludesMarker(content) THEN CommitSync(c, content)
              ELSE Throw(c, [status |-> "ok", text |-> content])

\* Of the four types the editor offers, one that the editor reopens for
\* editing and the one it reopens read-only.
EditorTypes == {"personal", "exam"}
TypeColor(type) == IF type = "exam" THEN "#ef4444" ELSE "#10b981"

\* start: the day clicked or now, on the hour; end: an hour later.
FormStart ==
    [valid |-> TRUE, zone |-> "local", year |-> 2025, month |-> 0, day |-> 7,
     hour |-> 10, minute |-> 0, second |-> 0]
FormEnd == [FormStart EXCEPT !.hour = @ + 1]

\* What the editor hands to onSave for a new event: the initial form with a
\* title typed and a type picked.
FormData(type) ==
    [title |-> Some(<<"u">>), description |-> Some(<<>>),
     startDate |-> Some(FormStart), endDate |-> Some(FormEnd),
     allDay |-> [def |-> TRUE, val |-> FALSE], location |-> Some(<<>>),
     type |-> type, color |-> TypeColor(type), subscriptionUrl |-> UndefinedId]

OwnEvents ==
    Cardinality({k \in 1..Len(storedEvents) : ~storedEvents[k].subscriptionUrl.def})

\* handleSaveEvent with no event selected: addEvent(data).
HandleSaveNewEvent ==
    /\ OwnEvents < MaxOwnEvents
    /\ \E type \in EditorTypes :
          storedEvents' = addEvent(storedEvents, FormData(type), FirstUserId(nextId, 1))
    /\ nextId' = TakeUserIds(nextId, 1)
    /\ syncs' = SawEdit(syncs, Edit("add", FirstUserId(nextId, 1), storedEvents'))
    /\ settled' = NoneSettled
    /\ viewEvents' = loadEvents(storedEvents', storedExams)
    /\ UNCHANGED <<storedSubs, clock, hist>>
    /\ UNCHANGED pureVars
    /\ UNCHANGED otherUiVars

\* importICalEvents(content) of the second CalendarTab
importICalEvents(stored, content, firstId) ==
    AddEach(stored, ParsedFiles[content], firstId)

\* handleImport(content); ImportModal hands over only a content that
\* includes the marker.
HandleImport ==
    \E content \in Documents :
        LET parsed == ParsedFiles[content]
        IN /\ IncludesMarker(content)
           /\ OwnEvents + Len(parsed) <= MaxOwnEvents
           /\ storedEvents' =
                 importICalEvents(storedEvents, content, FirstUserId(nextId, Len(parsed)))
           /\ nextId' = TakeUserIds(nextId, Len(parsed))
           /\ syncs' = IF parsed = <<>> THEN syncs
                        ELSE SawEdit(syncs, Edit("add", nextId.user, storedEvents'))
           /\ settled' = NoneSettled
           /\ viewEvents' = loadEvents(storedEvents', storedExams)
           /\ UNCHANGED <<storedSubs, clock, hist>>
           /\ UNCHANGED pureVars
           /\ UNCHANGED otherUiVars

Next ==
    \/ HandleAddSubscription
    \/ HandleDeleteSubscription
    \/ HandleSyncSubscription
    \/ FetchSettles
    \/ TextFails
    \/ TextArrives
    \/ HandleSaveNewEvent
    \/ HandleImport

Spec == Init /\ [][Next]_vars

\* The component is mounted on a localStorage that holds one subscription
\* with enabled: false and no events: syncAll runs over it and starts no
\* call.
DisabledSubscription == [NewSubscription(1, "#8b5cf6") EXCEPT !.enabled = FALSE]

InitStored ==
    /\ storedEvents = <<>>
    /\ storedSubs = <<DisabledSubscription>>
    /\ syncs = RunSyncAllEffect(EmptyBag, <<DisabledSubscription>>)
    /\ nextId = FirstIds
    /\ clock = 0
    /\ settled = NoneSettled
    /\ hist = <<NoHistory>>
    /\ storedExams = <<>>
    /\ viewEvents = <<>>
    /\ showEventModal = FALSE
    /\ selectedEvent = <<>>
    /\ input = <<>>
    /\ output = <<>>
    /\ saved = <<>>
    /\ stage = "app"

SpecStored == InitStored /\ [][Next]_vars

----------------------------------------------------------------------------
\* The storage functions, one call at a time, on a store that earlier calls
\* left behind

MaxStored == 3

\* Exams as the exam pages keep them under unifyer_exams, their ids distinct.
ExamOne == [id |-> 1, name |-> <<"m">>, date |-> FormStart]
ExamTwo == [id |-> 2, name |-> <<"p">>, date |-> FormEnd]
ExamLists == {<<>>, <<ExamOne>>, <<ExamOne, ExamTwo>>}

\* Events that earlier calls stored: one typed in the editor, one imported
\* with a start that is no date, one of a subscription, and one that carries
\* the id of the event derived from ExamOne.
CatalogEvents ==
    {WithId(FormData("personal"), -1),
     WithId(ParsedFiles[DocTwo][1], -2),
     WithId(ParsedDocuments[DocOne, 1, "#8b5cf6"][1], 1),
     WithId(FormData("exam"), ExamEventId(1))}
CatalogNextIds == [sync |-> 2, user |-> -3]
MissingId == -9
CallIds == {e.id : e \in CatalogEvents} \cup {MissingId}

Arrangements(S, n) ==
    {q \in [1..n -> S] : \A i, j \in 1..n : q[i].id = q[j].id => i = j}
Stores == {saveEvents(q) : q \in UNION {Arrangements(CatalogEvents, n) : n \in 0..MaxStored}}

\* The fields a caller hands to an update.
Partials ==
    {[title |-> Some(<<"v">>)],
     [startDate |-> Some(FormEnd), allDay |-> [def |-> TRUE, val |-> TRUE]],
     [startDate |-> Some(InvalidDate), endDate |-> UndefinedDate]}

ResultVoid == [kind |-> "undefined"]
ResultNull == [kind |-> "null"]
ResultEvent(e) == [kind |-> "event", val |-> e]
ResultFlag(b) == [kind |-> "boolean", val |-> b]

InitStore ==
    /\ storedSubs = <<>> /\ syncs = EmptyBag /\ clock = 0
    /\ settled = NoneSettled /\ hist = <<>>
    /\ viewEvents = <<>> /\ showEventModal = FALSE /\ selectedEvent = <<>>
    /\ \E store \in Stores, exams \in ExamLists :
          /\ storedEvents = store
          /\ saved = store
          /\ storedExams = exams
    /\ nextId = CatalogNextIds
    /\ input = <<>>
    /\ output = <<>>
    /\ stage = "store"

StoreFrame == UNCHANGED <<storedSubs, syncs, clock, settled, hist, storedExams, editorVars>>

\* addEvent(eventData)
CallAddEvent ==
    /\ stage = "store"
    /\ \E type \in EditorTypes :
          /\ input' = [eventData |-> FormData(type)]
          /\ storedEvents' = addEvent(storedEvents, FormData(type), FirstUserId(nextId, 1))
          /\ output' = ResultEvent(WithId(FormData(type), FirstUserId(nextId, 1)))
    /\ nextId' = TakeUserIds(nextId, 1)
    /\ stage' = "addEvent"
    /\ UNCHANGED <<saved, viewEvents>>
    /\ StoreFrame

\* updateEventInStorage(id, eventData)
CallUpdateEventInStorage ==
    /\ stage = "store"
    /\ \E id \in CallIds, eventData \in Partials :
          /\ input' = [id |-> id, eventData |-> eventData]
          /\ storedEvents' = updateEventInStorage(storedEvents, id, eventData)
    /\ output' = ResultVoid
    /\ stage' = "updateEventInStorage"
    /\ UNCHANGED <<saved, viewEvents, nextId>>
    /\ StoreFrame

\* updateEvent(id, eventData) of calendarService.ts
CallUpdateEvent ==
    /\ stage = "store"
    /\ \E id \in CallIds, eventData \in Partials :
          LET done == updateEvent(storedEvents, id, eventData)
          IN /\ input' = [id |-> id, eventData |-> eventData]
             /\ storedEvents' = done.stored
             /\ output' = IF done.result = <<>> THEN ResultNull
                           ELSE ResultEvent(done.result[1])
    /\ stage' = "updateEvent"
    /\ UNCHANGED <<saved, viewEvents, nextId>>
    /\ StoreFrame

\* deleteEventFromStorage(id)
CallDeleteEventFromStorage ==
    /\ stage = "store"
    /\ \E id \in CallIds :
          /\ input' = [id |-> id]
          /\ storedEvents' = deleteEventFromStorage(storedEvents, id)
    /\ output' = ResultVoid
    /\ stage' = "deleteEventFromStorage"
    /\ UNCHANGED <<saved, viewEvents, nextId>>
    /\ StoreFrame

\* deleteEvent(id) of calendarService.ts
CallDeleteEvent ==
    /\ stage = "store"
    /\ \E id \in CallIds :
          LET done == deleteEvent(storedEvents, id)
          IN /\ input' = [id |-> id]
             /\ storedEvents' = done.stored
             /\ output' = ResultFlag(done.result)
    /\ stage' = "deleteEvent"
    /\ UNCHANGED <<saved, viewEvents, nextId>>
    /\ StoreFrame

\* importICalEvents(content), and once more with the same content
CallImportICalEvents ==
    /\ stage \in {"store", "importICalEvents"}
    /\ \E content \in Documents :
          LET parsed == ParsedFiles[content]
              first == FirstUserId(nextId, Len(parsed))
          IN /\ stage = "importICalEvents" => content = input.content
             /\ input' = [content |-> content]
             /\ storedEvents' = importICalEvents(storedEvents, content, first)
             /\ nextId' = TakeUserIds(nextId, Len(parsed))
             /\ output' = [kind |-> "events", val |-> Added(parsed, first)]
    /\ stage' = IF stage = "store" THEN "importICalEvents" ELSE "importedTwice"
    /\ UNCHANGED <<saved, viewEvents>>
    /\ StoreFrame

\* loadEvents()
CallLoadEvents ==
    /\ stage = "store"
    /\ viewEvents' = loadEvents(storedEvents, storedExams)
    /\ input' = <<>>
    /\ output' = ResultVoid
    /\ stage' = "loadEvents"
    /\ UNCHANGED <<saved, storedEvents, nextId>>
    /\ StoreFrame

NextStore ==
    \/ CallAddEvent
    \/ CallUpdateEventInStorage
    \/ CallUpdateEvent
    \/ CallDeleteEventFromStorage
    \/ CallDeleteEvent
    \/ CallImportICalEvents
    \/ CallLoadEvents

SpecStore == InitStore /\ [][NextStore]_vars

----------------------------------------------------------------------------
\* The decoders of DTSTART and DTEND values, one call at a time

\* Values of the form YYYYMMDD, YYYYMMDDTHHMMSS and YYYYMMDDTHHMMSSZ, each a
\* date of the calendar and a time of the day.
DateDigits ==
    {y \o m \o d :
        y \in {<<"2", "0", "2", "5">>, <<"1", "9", "9", "9">>, <<"0", "0", "5", "0">>},
        m \in {<<"0", "1">>, <<"1", "2">>},
        d \in {<<"0", "1">>, <<"3", "1">>}}
TimeDigits ==
    {h \o m \o sec :
        h \in {<<"0", "0">>, <<"2", "3">>},
        m \in {<<"0", "0">>, <<"5", "9">>},
        sec \in {<<"0", "0">>, <<"3", "0">>}}
DateValues ==
    DateDigits
        \cup {d \o <<"T">> \o t : d \in DateDigits, t \in TimeDigits}
        \cup {d \o <<"T">> \o t \o <<"Z">> : d \in DateDigits, t \in TimeDigits}
DateKeys == {<<<<"DTSTART">>>>, <<<<"DTSTART">>, ValueDate>>, <<<<"DTEND">>>>}

InitDate ==
    /\ AppInit
    /\ \E val \in DateValues, parts \in DateKeys : input = [val |-> val, parts |-> parts]
    /\ output = <<>>
    /\ saved = <<>>
    /\ stage = "value"

\* parseDate(value, keyParts) of parseICalContent
CallParseDate ==
    /\ stage = "value"
    /\ output' = parseDate(input.val, input.parts)
    /\ stage' = "parseDate"
    /\ UNCHANGED <<input, saved>>
    /\ UNCHANGED appVars

\* parseICalDate(value, keyParts) of calendarService.ts
CallParseICalDate ==
    /\ stage = "value"
    /\ output' = DecodeDate("service", input.val, input.parts)
    /\ stage' = "parseICalDate"
    /\ UNCHANGED <<input, saved>>
    /\ UNCHANGED appVars

\* parseDate(value, keyParts) of the first importICalEvents
CallLegacyParseDate ==
    /\ stage = "value"
    /\ output' = legacyParseDate(input.val, input.parts)
    /\ stage' = "legacyParseDate"
    /\ UNCHANGED <<input, saved>>
    /\ UNCHANGED appVars

NextDate ==
    \/ CallParseDate
    \/ CallParseICalDate
    \/ CallLegacyParseDate

SpecDate == InitDate /\ [][NextDate]_vars

----------------------------------------------------------------------------
\* parseICalContent on one VEVENT block with DTSTART and DTEND lines

MaxProps == 3

LineStartDate(digits) == <<"DTSTART", Semicolon, "VALUE=DATE", Colon>> \o digits
LineStartTime == <<"DTSTART", Colon>>
                    \o <<"2", "0", "2", "5", "0", "5", "2", "2", "T",
                          "1", "0", "1", "5", "3", "0", "Z">>
LineEndDate == <<"DTEND", Semicolon, "VALUE=DATE", Colon,
                 "2", "0", "2", "5", "0", "5", "2", "3">>
LineEndTime == <<"DTEND", Colon>>
                  \o <<"2", "0", "2", "5", "0", "5", "2", "2", "T",
                        "1", "1", "1", "5", "0", "0">>
PropCatalog ==
    {LineStart, LineStartDate(<<"0", "0", "5", "0", "0", "6", "1", "5">>),
     LineStartTime, LineEndDate, LineEndTime}

InitBlock ==
    /\ AppInit
    /\ \E props \in StringsUpTo(PropCatalog, MaxProps) :
          /\ saved = <<BeginVEvent, LineSummary>> \o props \o <<EndVEvent>>
          /\ input = Join(saved, <<Newline>>)
    /\ output = <<>>
    /\ stage = "content"

SpecBlock == InitBlock /\ [][NextParse]_vars

----------------------------------------------------------------------------
\* The parsers on a calendar of one event, whole or with lines missing

ExampleLines ==
    <<BeginVCalendar,
      BeginVEvent,
      <<"SUMMARY", Colon, "Midterm", Backslash, Comma, Space, "Calc", Space, "III">>,
      LineStart,
      <<"LOCATION", Colon, "Main", Space, "Hall", Space, "A">>,
      EndVEvent,
      EndVCalendar>>

\* The lines of a document at the places kept, in their order.
RECURSIVE KeepLines(_, _, _)
KeepLines(lines, kept, k) ==
    IF k > Len(lines) THEN <<>>
    ELSE (IF k \in kept THEN <<lines[k]>> ELSE <<>>) \o KeepLines(lines, kept, k + 1)

InitExample ==
    /\ AppInit
    /\ \E kept \in SUBSET (1..Len(ExampleLines)), break \in {<<Newline>>, <<Return, Newline>>} :
          /\ saved = KeepLines(ExampleLines, kept, 1)
          /\ input = Join(saved, break)
    /\ output = <<>>
    /\ stage = "content"

SpecExample == InitExample /\ [][NextParse]_vars

----------------------------------------------------------------------------
\* The parsers on documents of several blocks, whole and broken

MaxBlocks == 3

LineSummaryOf(letter) == <<"SUMMARY", Colon, letter>>
LineUnknown == <<"X-KEY", Colon, "z">>
LineLocation == <<"LOCATION", Colon, "r">>

\* Pieces of a document: blocks that are valid, blocks that are not, a
\* block that is never closed, and lines outside any block.
PieceCatalog ==
    {<<BeginVEvent, LineSummaryOf("a"), LineStart, EndVEvent>>,
     <<BeginVEvent, LineOther, LineUnknown, LineSummaryOf("c"), LineStartTime,
       LineLocation, EndVEvent>>,
     <<BeginVEvent, LineStart, EndVEvent>>,
     <<BeginVEvent, LineSummaryOf("d"), LineOther, EndVEvent>>,
     <<BeginVEvent, LineSummaryEmpty, LineStart, EndVEvent>>,
     <<BeginVEvent, LineSummaryOf("b"), LineStart, LineLocation>>,
     <<EndVEvent>>,
     <<LineSummaryOf("o"), LineStart>>}

InitBlocks ==
    /\ AppInit
    /\ \E pieces \in StringsUpTo(PieceCatalog, MaxBlocks) :
          /\ saved = Concat(pieces)
          /\ input = Join(saved, <<Newline>>)
    /\ output = <<>>
    /\ stage = "content"

SpecBlocks == InitBlocks /\ [][NextParse]_vars

----------------------------------------------------------------------------
\* The editor: EventModal over the event picked in a calendar view

MaxCreated == 1

\* event.description || '', event.location || ''
OrEmpty(text) == IF text.def /\ text.val # <<>> THEN text ELSE Some(<<>>)

\* The initial formData of EventModal
InitialForm(selected) ==
    IF selected # <<>>
    THEN LET event == selected[1]
         IN [title |-> event.title,
             description |-> OrEmpty(event.description),
             startDate |-> event.startDate,
             endDate |-> event.endDate,
             allDay |-> [def |-> TRUE, val |-> event.allDay.def /\ event.allDay.val],
             type |-> event.type,
             color |-> IF event.color # "" THEN event.color ELSE DefaultColor,
             location |-> OrEmpty(event.location)]
    ELSE [title |-> Some(<<>>), description |-> Some(<<>>),
          startDate |-> Some(FormStart), endDate |-> Some(FormEnd),
          allDay |-> [def |-> TRUE, val |-> FALSE],
          type |-> "personal", color |-> TypeColor("personal"),
          location |-> Some(<<>>)]

\* The forms the user can have made of the initial one before submitting:
\* the title kept, retyped or blanked, the type kept or set to exam.
FormsOf(selected) ==
    LET form == InitialForm(selected)
    IN {[form EXCEPT !.title = title] :
            title \in {form.title, Some(<<"v">>), Some(<<Space>>)}}
       \cup {[form EXCEPT !.title = Some(<<"v">>), !.type = "exam",
                          !.color = TypeColor("exam")]}

\* formData.title.trim()
Trim(text) ==
    LET Blank(ch) == ch \in {Space, Tab, Newline, Return}
        NotBlank == {k \in 1..Len(text) : ~Blank(text[k])}
    IN IF NotBlank = {} THEN <<>>
       ELSE SubSeq(text, CHOOSE k \in NotBlank : \A j \in NotBlank : k <= j,
                         CHOOSE k \in NotBlank : \A j \in NotBlank : k >= j)

ReadOnlyTypes == {"subscription", "exam"}

\* A test of the type that lets exam events into the form.
IsSubscriptionEvent(selected) ==
    selected # <<>> /\ selected[1].type = "subscription"

\* isReadOnly of EventModal
isReadOnly(selected) ==
    selected # <<>> /\ selected[1].type \in ReadOnlyTypes

\* onDelete is handed to EventModal
HasOnDelete(selected) ==
    selected # <<>> /\ selected[1].type # "subscription" /\ selected[1].type # "exam"

\* The component is mounted on a store that earlier sessions left, and has
\* loaded it.
InitEditor ==
    /\ storedSubs = <<>> /\ syncs = EmptyBag /\ clock = 0
    /\ settled = NoneSettled /\ hist = <<>>
    /\ \E store \in Stores, exams \in ExamLists :
          /\ storedEvents = store
          /\ storedExams = exams
          /\ viewEvents = loadEvents(store, exams)
    /\ nextId = CatalogNextIds
    /\ showEventModal = FALSE
    /\ selectedEvent = <<>>
    /\ input = <<>> /\ output = <<>> /\ saved = <<>>
    /\ stage = "editor"

EditorFrame ==
    /\ settled' = NoneSettled
    /\ UNCHANGED <<storedSubs, clock, hist, storedExams>>
    /\ UNCHANGED pureVars

\* handleEventClick(event), on an event shown by a view
HandleEventClick ==
    /\ ~showEventModal
    /\ \E k \in 1..Len(viewEvents) : selectedEvent' = <<viewEvents[k]>>
    /\ showEventModal' = TRUE
    /\ UNCHANGED <<storedEvents, viewEvents, nextId, syncs>>
    /\ EditorFrame

\* handleDateClick(date) in the week or day view
HandleDateClick ==
    /\ ~showEventModal
    /\ selectedEvent' = <<>>
    /\ showEventModal' = TRUE
    /\ UNCHANGED <<storedEvents, viewEvents, nextId, syncs>>
    /\ EditorFrame

\* onClose of EventModal: the close button, Cancel, or a click outside
HandleClose ==
    /\ showEventModal
    /\ showEventModal' = FALSE
    /\ selectedEvent' = <<>>
    /\ UNCHANGED <<storedEvents, viewEvents, nextId, syncs>>
    /\ EditorFrame

\* handleSubmit of the form, which is there when the event is not
\* read-only, and handleSaveEvent(data)
HandleSaveEvent ==
    /\ showEventModal
    /\ ~isReadOnly(selectedEvent)
    /\ \E data \in FormsOf(selectedEvent) :
          IF Trim(data.title.val) = <<>>
          THEN UNCHANGED <<storedEvents, viewEvents, nextId, editorVars, syncs>>
          ELSE /\ IF selectedEvent # <<>>
                  THEN /\ storedEvents' =
                             updateEventInStorage(storedEvents, selectedEvent[1].id, data)
                       /\ nextId' = nextId
                       /\ syncs' = SawEdit(syncs, Edit("update", selectedEvent[1].id,
                                                         storedEvents'))
                  ELSE /\ nextId.user > CatalogNextIds.user - MaxCreated
                       /\ storedEvents' =
                             addEvent(storedEvents, data @@ [subscriptionUrl |-> UndefinedId],
                                      FirstUserId(nextId, 1))
                       /\ nextId' = TakeUserIds(nextId, 1)
                       /\ syncs' = SawEdit(syncs, Edit("add", FirstUserId(nextId, 1),
                                                         storedEvents'))
               /\ viewEvents' = loadEvents(storedEvents', storedExams)
               /\ showEventModal' = FALSE
               /\ selectedEvent' = <<>>
    /\ EditorFrame

\* The Delete button of the form, which is there when the event is not
\* read-only and onDelete was handed over, and handleDeleteEvent(id)
HandleDeleteEvent ==
    /\ showEventModal
    /\ ~isReadOnly(selectedEvent)
    /\ HasOnDelete(selectedEvent)
    /\ \E confirmed \in BOOLEAN :
          IF confirmed
          THEN /\ storedEvents' = deleteEventFromStorage(storedEvents, selectedEvent[1].id)
               /\ syncs' = SawEdit(syncs, Edit("delete", selectedEvent[1].id,
                                                 storedEvents'))
               /\ viewEvents' = loadEvents(storedEvents', storedExams)
               /\ showEventModal' = FALSE
               /\ selectedEvent' = <<>>
          ELSE UNCHANGED <<storedEvents, viewEvents, editorVars, syncs>>
    /\ UNCHANGED nextId
    /\ EditorFrame

NextEditor ==
    \/ HandleEventClick
    \/ HandleDateClick
    \/ HandleClose
    \/ HandleSaveEvent
    \/ HandleDeleteEvent

SpecEditor == InitEditor /\ [][NextEditor]_vars

\* --- the editor at work while subscriptions sync ---

\* The component is mounted on a store that holds one subscription, and
\* nothing else or one event typed in the editor in an earlier session; the
\* effect on subscriptions.length has started syncAll.
InitEdits ==
    /\ storedSubs = <<NewSubscription(1, "#8b5cf6")>>
    /\ syncs = RunSyncAllEffect(EmptyBag, storedSubs)
    /\ clock = 0
    /\ settled = NoneSettled
    /\ hist = <<NoHistory>>
    /\ \E store \in {<<>>, saveEvents(<<WithId(FormData("personal"), -1)>>)} :
          /\ storedEvents = store
          /\ viewEvents = loadEvents(store, <<>>)
    /\ storedExams = <<>>
    /\ nextId = CatalogNextIds
    /\ showEventModal = FALSE
    /\ selectedEvent = <<>>
    /\ input = <<>> /\ output = <<>> /\ saved = <<>>
    /\ stage = "app"

NextEdits ==
    \/ HandleSyncSubscription
    \/ FetchSettles
    \/ TextFails
    \/ TextArrives
    \/ HandleEventClick
    \/ HandleDateClick
    \/ HandleClose
    \/ HandleSaveEvent
    \/ HandleDeleteEvent

SpecEdits == InitEdits /\ [][NextEdits]_vars

----------------------------------------------------------------------------
\* Properties of the unescapers

\* The decoder the contract describes: one pass from left to right, each of
\* the four two-character sequences consumed once, anything else copied.
RECURSIVE SinglePassDecode(_, _)
SinglePassDecode(s, i) ==
    IF i > Len(s) THEN <<>>
    ELSE IF s[i] = Backslash /\ i < Len(s)
            /\ s[i + 1] \in {Backslash, Comma, Semicolon, LetterN}
        THEN <<IF s[i + 1] = LetterN THEN Newline ELSE s[i + 1]>>
             \o SinglePassDecode(s, i + 2)
    ELSE <<s[i]>> \o SinglePassDecode(s, i + 1)

\* C8: unescapeValue decodes every input as one left-to-right pass that
\* never re-scans what it has replaced; in particular backslash backslash n
\* gives backslash n, not a newline.
C8_SinglePass ==
    stage = "unescapeValue" => output = SinglePassDecode(input, 1)

EscapedOnly == {Backslash, Comma, Semicolon, Newline}

IsRoundTripCase ==
    /\ stage \in {"unescapeValue", "serviceText", "serviceLocation", "legacyText"}
    /\ \A k \in 1..Len(saved) : saved[k] \in EscapedOnly
    /\ input = Escape(saved)

\* C9: for every string s of commas, semicolons, backslashes and newlines,
\* each unescaper of a text value returns s when given the escaped form of s.
C9_RoundTrip == IsRoundTripCase => output = saved

\* The round trip as far as it holds: unescapeValue of parseICalContent alone.
UnescapeValueRoundTrip ==
    (IsRoundTripCase /\ stage = "unescapeValue") => output = saved

----------------------------------------------------------------------------
\* Properties of the unfolder

BeginsWithSpaceOrTab(line) == line # <<>> /\ (line[1] = Space \/ line[1] = Tab)

\* C10 as stated: unfolding the rejoined logical lines gives the same
\* logical lines, for every input.
C10_Idempotent == stage = "unfoldedAgain" => saved = output

\* C10 amended: unfolding the rejoined logical lines gives the same logical
\* lines exactly when no logical line after the first begins with a space
\* or a tab.
C10_IdempotentUnlessBlankHead ==
    stage = "unfoldedAgain" =>
        (saved = output <=>
            \A k \in 2..Len(output) : ~BeginsWithSpaceOrTab(output[k]))

\* A text with continuation lines was unfolded into several logical lines,
\* and unfolding them again changed nothing.
C10_Witness ==
    /\ stage = "unfoldedAgain"
    /\ Len(output) >= 2
    /\ Len(output) < Len(SplitLines(input))
    /\ saved = output

----------------------------------------------------------------------------
\* Properties of the block parsers

Parsed == stage \in Variants

\* The logical lines of a content, each with the physical line it starts at.
SpansOf(content) == UnfoldFrom(SplitLines(content), 1)

IsProperty(line, name) ==
    /\ \E k \in 1..Len(line) : line[k] = Colon
    /\ KeyParts(line)[1] = <<name>>

\* In the logical lines sp, line e is an END:VEVENT that closes a block: a
\* BEGIN:VEVENT precedes it with no END:VEVENT in between.  The block starts
\* at the last BEGIN:VEVENT before e.
Closes(sp, e) ==
    /\ sp[e].line = EndVEvent
    /\ \E b \in 1..(e - 1) :
          /\ sp[b].line = BeginVEvent
          /\ \A j \in (b + 1)..(e - 1) : sp[j].line # EndVEvent

BlockStart(sp, e) ==
    CHOOSE b \in 1..(e - 1) :
        /\ sp[b].line = BeginVEvent
        /\ \A j \in (b + 1)..(e - 1) : sp[j].line # BeginVEvent

\* The block's SUMMARY is its last SUMMARY line; it is non-empty when that
\* line has a value.
HasSummary(sp, e) ==
    \E k \in (BlockStart(sp, e) + 1)..(e - 1) :
        /\ IsProperty(sp[k].line, "SUMMARY")
        /\ sp[k].line[Len(sp[k].line)] # Colon
        /\ \A j \in (k + 1)..(e - 1) : ~IsProperty(sp[j].line, "SUMMARY")

HasStart(sp, e) ==
    \E k \in (BlockStart(sp, e) + 1)..(e - 1) : IsProperty(sp[k].line, "DTSTART")

ValidBlocks(sp) ==
    {e \in 1..Len(sp) : Closes(sp, e) /\ HasSummary(sp, e) /\ HasStart(sp, e)}

\* C1: each VEVENT block with a non-empty SUMMARY and a DTSTART gives exactly
\* one event, whose title and startDate are set; each other block gives none.
C1_OneEventPerValidBlock ==
    Parsed =>
        /\ Len(output) = Cardinality(ValidBlocks(SpansOf(input)))
        /\ \A k \in 1..Len(output) :
              /\ output[k].title.def /\ output[k].title.val # <<>>
              /\ output[k].startDate.def

\* A document with one complete block was parsed into one event.
C1_Witness ==
    /\ stage = "tab"
    /\ Len(output) = 1
    /\ Cardinality(ValidBlocks(SpansOf(input))) = 1

\* What a parser returns for a content, the store being empty before.
Returned(variant, content) ==
    IF variant = "tab" THEN parseICalContent(content, UndefinedId, UndefinedColor)
    ELSE LET parsed == ParseVariant(variant, content, UndefinedId, UndefinedColor)
         IN Added(parsed, FirstUserId(FirstIds, Len(parsed)))

\* In sp, line b is a BEGIN:VEVENT that no later END:VEVENT follows.
Dangling(sp, b) ==
    /\ sp[b].line = BeginVEvent
    /\ \A j \in (b + 1)..Len(sp) : sp[j].line # EndVEvent

\* The content cut before its physical line h.
CutBefore(content, h) ==
    Join(SubSeq(SplitLines(content), 1, h - 1), <<Newline>>)

DanglingDiscarded(sp) ==
    \A b \in 1..Len(sp) :
        Dangling(sp, b) => output = Returned(stage, CutBefore(input, sp[b].head))

\* C2: a BEGIN:VEVENT that no END:VEVENT follows gives no event: the result
\* is the result for the document cut before that line.
C2_DanglingDiscarded == Parsed => DanglingDiscarded(SpansOf(input))

DanglingComplete(sp) ==
    \E b \in 1..Len(sp) :
        /\ Dangling(sp, b)
        /\ \E k \in (b + 1)..Len(sp) : sp[k].line = LineSummary
        /\ \E k \in (b + 1)..Len(sp) : sp[k].line = LineStart

\* The input ended inside a block that had a SUMMARY and a DTSTART, and
\* nothing was emitted for it.
C2_Witness ==
    /\ stage = "tab"
    /\ output = <<>>
    /\ DanglingComplete(SpansOf(input))

----------------------------------------------------------------------------
\* Properties of the store and of the sync engine

\* The events as getEvents reads them.
Events == getEvents(storedEvents)

\* The events whose subscription source id is id, in the order of the store.
Tagged(events, id) ==
    LET Is(e) == e.subscriptionUrl.def /\ e.subscriptionUrl.val = id
    IN SelectSeq(events, Is)

\* The events whose subscription source id is not id.
Untagged(events, id) ==
    LET IsNot(e) == ~e.subscriptionUrl.def \/ e.subscriptionUrl.val # id
    IN SelectSeq(events, IsNot)

\* An event without its id, and a draft as it reads back from the store.
Body(e) == [f \in DOMAIN e \ {"id"} |-> e[f]]
Bodies(events) == [k \in 1..Len(events) |-> Body(events[k])]
ReadBack(draft) == FromJSON(ToJSON(draft))

\* The drafts of a sync of subscription id that fetched content.
DraftsOf(content, id, color) ==
    LET parsed == ParsedDocuments[content, id, color]
    IN [k \in 1..Len(parsed) |-> ReadBack(parsed[k])]

DistinctIds(events) ==
    \A j, k \in 1..Len(events) : events[j].id = events[k].id => j = k

\* C3: when two successful syncs of a stored subscription followed one
\* another with different draft sets, the events tagged with the
\* subscription are exactly the drafts of the second sync.
C3_SecondSyncReplaces ==
    \A k \in 1..Len(storedSubs) :
        LET sub == storedSubs[k]
            commits == hist[sub.id].commits
        IN (/\ Len(commits) = 2
            /\ DraftsOf(commits[1], sub.id, sub.color)
                   # DraftsOf(commits[2], sub.id, sub.color))
           => Bodies(Tagged(Events, sub.id)) = DraftsOf(commits[2], sub.id, sub.color)

\* C3: a subscription has been synced twice, one sync after the other, with
\* different draft sets.
C3_Witness ==
    \E k \in 1..Len(storedSubs) :
        LET sub == storedSubs[k]
            h == hist[sub.id]
        IN /\ Len(h.commits) = 2
           /\ ~h.overlapped
           /\ DraftsOf(h.commits[1], sub.id, sub.color)
                  # DraftsOf(h.commits[2], sub.id, sub.color)
           /\ Len(Tagged(Events, sub.id)) = Len(DraftsOf(h.commits[2], sub.id, sub.color))

\* C4: once a sync that was in flight when its subscription was deleted has
\* completed, the store holds no event tagged with the deleted subscription.
C4_NoResurrection ==
    \A id \in 1..Len(hist) : hist[id].late => Tagged(Events, id) = <<>>

\* C5: once all syncs have completed, the events tagged with a subscription
\* id are none, or the drafts of one single sync of it (the last to replace),
\* each once.
C5_AtomicReplace ==
    syncs = EmptyBag =>
        \A id \in 1..Len(hist) :
            LET tagged == Tagged(Events, id)
                commits == hist[id].commits
            IN \/ tagged = <<>>
               \/ /\ commits # <<>>
                  /\ DistinctIds(tagged)
                  /\ \E color \in SubscriptionColors :
                        Bodies(tagged) = DraftsOf(commits[Len(commits)], id, color)

\* C5: all syncs have completed, and the last replacement of a subscription
\* was made by a sync that overlapped the one replacing before it.
C5_Witness ==
    /\ syncs = EmptyBag
    /\ \E id \in 1..Len(hist) :
          /\ hist[id].overlapped
          /\ Len(hist[id].commits) = 2
          /\ hist[id].commits[1] # hist[id].commits[2]
          /\ Tagged(Events, id) # <<>>

\* The text has the marker BEGIN:VCALENDAR in it.
HasMarker(text) ==
    \E i \in 1..Len(text) :
        /\ i + 2 <= Len(text)
        /\ text[i] = "BEGIN" /\ text[i + 1] = ":" /\ text[i + 2] = "VCALENDAR"

\* The fetch failed, was answered with a status that is not ok, or gave a
\* text without the marker.
FailingResponse(r) ==
    \/ r.status \in {"rejected", "notOk"}
    \/ r.status = "ok" /\ ~HasMarker(r.text)

\* C6: the step in which a sync settles on a failed fetch or on a text
\* without the marker leaves the event store as it is and rejects the promise.
C6_FailureLeavesStore ==
    [][FailingResponse(settled'.response)
           => storedEvents' = storedEvents /\ ~settled'.ok]_vars

\* C6: a sync has just failed on a text without the marker while the store
\* holds events of its subscription from an earlier sync.
C6_Witness ==
    /\ settled.response.status = "ok"
    /\ FailingResponse(settled.response)
    /\ ~settled.ok
    /\ Tagged(Events, settled.sub) # <<>>

\* C7: the step that deletes a subscription removes from the store, as
\* getEvents reads it, the events tagged with the subscription and no other.
C7_DeleteRemovesAllAndOnly ==
    [][\A id \in SubIds(storedSubs) \ SubIds(storedSubs') :
           getEvents(storedEvents') = Untagged(Events, id)]_vars

\* C7: a subscription that had events has been deleted, its events are gone
\* and other events are still there.
C7_Witness ==
    \E id \in 1..Len(hist) :
        /\ id \notin SubIds(storedSubs)
        /\ hist[id].commits # <<>>
        /\ Tagged(Events, id) = <<>>
        /\ Events # <<>>

----------------------------------------------------------------------------
\* The storage functions

Before == getEvents(saved)
DerivedEvents == getExamsAsEvents(storedExams)
DerivedIds == {DerivedEvents[k].id : k \in 1..Len(DerivedEvents)}
Places(events, id) == {k \in 1..Len(events) : events[k].id = id}
Underived(events) ==
    LET Other(e) == e.id \notin DerivedIds
    IN SelectSeq(events, Other)

\* C11: after loadEvents the merged list holds, for every id of a derived
\* exam event, that derived event at exactly one place and no stored event
\* with that id, and the stored events with other ids are in it unchanged
\* and in their order.
C11_DerivedOverlay ==
    stage = "loadEvents" =>
        /\ \A k \in 1..Len(DerivedEvents) :
              /\ Cardinality(Places(viewEvents, DerivedEvents[k].id)) = 1
              /\ \A j \in Places(viewEvents, DerivedEvents[k].id) :
                    viewEvents[j] = DerivedEvents[k]
        /\ Underived(viewEvents) = Underived(Events)
        /\ Len(viewEvents) = Len(Underived(Events)) + Len(DerivedEvents)

\* C11 witness: a load over a store that holds an event with a derived id
\* and an event with another id.
C11_Witness ==
    /\ stage = "loadEvents"
    /\ \E k \in 1..Len(Events) : Events[k].id \in DerivedIds
    /\ \E k \in 1..Len(Events) : Events[k].id \notin DerivedIds

ReadBackEach(drafts) == [k \in 1..Len(drafts) |-> ReadBack(drafts[k])]

\* C12: after addEvent the store reads as what it read before followed by
\* one event with the draft's fields and an id no stored event had, whatever
\* is stored already; after the same document was imported twice the store
\* reads as before followed by the document's events twice, all ids
\* distinct.
C12_AddAppends ==
    /\ stage = "addEvent" =>
          /\ Len(Events) = Len(Before) + 1
          /\ SubSeq(Events, 1, Len(Before)) = Before
          /\ Body(Events[Len(Events)]) = ReadBack(input.eventData)
          /\ Places(Before, Events[Len(Events)].id) = {}
          /\ output.val.id = Events[Len(Events)].id
    /\ stage = "importedTwice" =>
          /\ SubSeq(Events, 1, Len(Before)) = Before
          /\ Bodies(SubSeq(Events, Len(Before) + 1, Len(Events))) =
                ReadBackEach(ParsedFiles[input.content])
                    \o ReadBackEach(ParsedFiles[input.content])
          /\ \A k \in 1..Len(Events) : Places(Events, Events[k].id) = {k}

\* C12 witness: a document of two events was imported twice.
C12_Witness ==
    /\ stage = "importedTwice"
    /\ Len(ParsedFiles[input.content]) = 2
    /\ Before # <<>>

\* The record an update of a stored record is to leave behind.
MergedOver(e, data) ==
    ReadBack([f \in DOMAIN e |-> IF f \in DOMAIN data THEN data[f] ELSE e[f]])

IsUpdate == stage \in {"updateEvent", "updateEventInStorage"}

IsDelete == stage \in {"deleteEvent", "deleteEventFromStorage"}
Others(events, id) ==
    LET Other(e) == e.id # id
    IN SelectSeq(events, Other)

\* What a delete does to the store, whichever function ran: one record
\* less when the id is stored, and the same records when it is not.
DeleteStoreEffect ==
    IsDelete =>
        IF Places(Before, input.id) # {}
        THEN Len(Events) = Len(Before) - 1 /\ Events = Others(Before, input.id)
        ELSE Events = Before

\* C14: a delete of a stored id removes that record alone and results in
\* true; a delete of an id that is not stored changes nothing and results
\* in false.
C14_DeleteRemovesOne ==
    /\ DeleteStoreEffect
    /\ IsDelete =>
          /\ output.kind = "boolean"
          /\ output.val = (Places(Before, input.id) # {})

----------------------------------------------------------------------------
\* The stamp of the last sync

SubOf(subs, id) == subs[CHOOSE k \in 1..Len(subs) : subs[k].id = id]
SettledOk(st) ==
    st.sub # 0 /\ st.ok /\ st.response.status = "ok" /\ HasMarker(st.response.text)

\* C15: a subscription is stored without lastSync; in every step the
\* lastSync of a stored subscription changes only when a sync of that
\* subscription succeeds in that step, and every sync that succeeds for a
\* subscription still stored sets its lastSync to the time of that step.
C15_StampOnlyOnSuccess ==
    [][\A id \in SubIds(storedSubs') :
          IF id \notin SubIds(storedSubs)
          THEN ~SubOf(storedSubs', id).lastSync.def
          ELSE /\ SubOf(storedSubs', id).lastSync # SubOf(storedSubs, id).lastSync
                    => SettledOk(settled') /\ settled'.sub = id
               /\ settled'.sub = id /\ settled'.ok
                    => SubOf(storedSubs', id).lastSync = [def |-> TRUE, val |-> clock']
               /\ settled'.sub = id /\ ~settled'.ok
                    => SubOf(storedSubs', id).lastSync = SubOf(storedSubs, id).lastSync]_vars

\* C15 witness: a sync of one subscription has just succeeded and stamped
\* it, and another subscription is stored that never synced.
C15_Witness ==
    /\ SettledOk(settled)
    /\ \E id, other \in SubIds(storedSubs) :
          /\ id = settled.sub
          /\ SubOf(storedSubs, id).lastSync = [def |-> TRUE, val |-> clock]
          /\ ~SubOf(storedSubs, other).lastSync.def

----------------------------------------------------------------------------
\* Subscriptions that are not enabled

----------------------------------------------------------------------------
\* The batch of syncAll

EnabledOf(snapshot) ==
    LET IsEnabled(sub) == sub.enabled
    IN SelectSeq(snapshot, IsEnabled)
\* The part of snapshot after its first enabled subscription.
RECURSIVE AfterFirstEnabled(_)
AfterFirstEnabled(snapshot) ==
    IF Head(snapshot).enabled THEN Tail(snapshot)
    ELSE AfterFirstEnabled(Tail(snapshot))

BatchSettled(st) == st.sub # 0 /\ st.by = "syncAll"

\* C17: in every step in which a sync awaited by syncAll settles, failed or
\* not, a sync of the next enabled subscription of the batch is started
\* when there is one, and the event list is reloaded from the store when
\* there is none.
C17_BatchGoesOn ==
    [][BatchSettled(settled') =>
          IF EnabledOf(settled'.rest) # <<>>
          THEN \E c \in BagToSet(syncs') :
                  /\ c.sub = EnabledOf(settled'.rest)[1].id
                  /\ c.by = "syncAll" /\ c.at = "fetch"
                  /\ c.rest = AfterFirstEnabled(settled'.rest)
                  /\ CopiesIn(c, syncs') = CopiesIn(c, syncs) + 1
          ELSE viewEvents' = loadEvents(storedEvents', storedExams)]_vars

\* C17 witness: a sync of the batch has just failed, the sync of the next
\* subscription of the batch is in flight, and the store holds events.
C17_Witness ==
    /\ BatchSettled(settled) /\ ~settled.ok
    /\ settled.rest # <<>>
    /\ \E c \in InFlight :
          c.by = "syncAll" /\ c.sub = settled.rest[1].id /\ c.sub # settled.sub
    /\ Events # <<>>

----------------------------------------------------------------------------
\* The editor

ReadOnlyRecords(events) ==
    {events[k] : k \in {j \in 1..Len(events) : events[j].type \in ReadOnlyTypes}}

\* C18: no step of the editor changes or removes a stored event of type
\* exam or subscription, and while such an event, stored or derived, is the
\* one the editor is open on, no step changes the store at all.
C18_ReadOnlyInEditor ==
    [][/\ ReadOnlyRecords(Events) \subseteq ReadOnlyRecords(getEvents(storedEvents'))
       /\ (selectedEvent # <<>> /\ selectedEvent[1].type \in ReadOnlyTypes)
              => getEvents(storedEvents') = Events]_vars

\* C18 witness: the editor is open on a stored event of type exam while a
\* subscription event is stored too.
C18_Witness ==
    /\ showEventModal
    /\ selectedEvent # <<>>
    /\ selectedEvent[1].type = "exam"
    /\ selectedEvent[1] \in ReadOnlyRecords(Events)
    /\ \E e \in ReadOnlyRecords(Events) : e.type = "subscription"

----------------------------------------------------------------------------
\* Dates

\* The number a run of digits writes.
RECURSIVE Written(_)
Written(digits) ==
    IF digits = <<>> THEN 0
    ELSE 10 * Written(SubSeq(digits, 1, Len(digits) - 1)) + DigitValue(digits[Len(digits)])

\* The instant in zone whose fields are those a value writes; midnight when
\* the value has no time.
WrittenDate(val, zone) ==
    [valid |-> TRUE, zone |-> zone,
     year |-> Written(SubSeq(val, 1, 4)), month |-> Written(SubSeq(val, 5, 6)) - 1,
     day |-> Written(SubSeq(val, 7, 8)),
     hour |-> IF Len(val) >= 15 THEN Written(SubSeq(val, 10, 11)) ELSE 0,
     minute |-> IF Len(val) >= 15 THEN Written(SubSeq(val, 12, 13)) ELSE 0,
     second |-> IF Len(val) >= 15 THEN Written(SubSeq(val, 14, 15)) ELSE 0]

IsDecoded == stage \in {"parseDate", "parseICalDate", "legacyParseDate"}

\* What C19 asks of one decoder, for the values whose year is in years.
ZoneDecoded(decoder, years) ==
    (stage = decoder /\ Len(input.val) >= 15 /\ ~IsDateOnly(input.parts)
        /\ Written(SubSeq(input.val, 1, 4)) \in years)
    => output = WrittenDate(input.val, IF EndsWithZ(input.val) THEN "utc" ELSE "local")

\* C19: each of the three decoders gives, for a value YYYYMMDDTHHMMSSZ, the
\* UTC instant with the fields written, and for a value YYYYMMDDTHHMMSS the
\* local instant with the fields written.
C19_ZoneDecoding ==
    \A decoder \in {"parseDate", "parseICalDate", "legacyParseDate"} :
        ZoneDecoded(decoder, 0..9999)

\* The decoders of parseICalContent and of calendarService.ts, on the years
\* from 100 on.
ZoneDecodedFromYear100 ==
    ZoneDecoded("parseDate", 100..9999) /\ ZoneDecoded("parseICalDate", 100..9999)

\* The DTSTART lines of the block, in their order.
StartLines ==
    LET IsStart(line) == IndexOfColon(line) > 0 /\ KeyParts(line)[1] = <<"DTSTART">>
    IN SelectSeq(saved, IsStart)
LastStart == StartLines[Len(StartLines)]

\* What C20 asks of parseICalContent, for the DTSTART values whose year is
\* in years.
DateOnlyDecoded(years) ==
    (stage = "tab" /\ Len(output) = 1
        /\ Written(SubSeq(LineValue(LastStart), 1, 4)) \in years)
    => /\ output[1].allDay = Some(IsDateOnly(KeyParts(LastStart)))
       /\ IsDateOnly(KeyParts(LastStart))
             => output[1].startDate = Some(WrittenDate(SubSeq(LineValue(LastStart), 1, 8), "local"))

\* C20: the event of a block whose last DTSTART carries VALUE=DATE starts at
\* local midnight of the date its eight digits write, and the allDay flag
\* of an emitted event is true exactly when its last DTSTART carries
\* VALUE=DATE, whatever the DTEND lines carry.
C20_DateOnlyStart == DateOnlyDecoded(0..9999)

\* The same on the years from 100 on.
DateOnlyFromYear100 == DateOnlyDecoded(100..9999)

----------------------------------------------------------------------------
\* The calendar of one event

\* C21: parseICalContent and the importICalEvents of calendarService.ts
\* give, for the example document, one event with the title Midterm, Calc
\* III, allDay true, the start 2025-05-22 and the location Main Hall A.
C21_ExampleParses ==
    (stage \in {"tab", "service"} /\ saved = ExampleLines) =>
        /\ Len(output) = 1
        /\ output[1].title = Some(<<"Midterm", Comma, Space, "Calc", Space, "III">>)
        /\ output[1].allDay = Some(TRUE)
        /\ output[1].startDate =
              Some([valid |-> TRUE, zone |-> "local", year |-> 2025, month |-> 4,
                    day |-> 22, hour |-> 0, minute |-> 0, second |-> 0])
        /\ output[1].location = Some(<<"Main", Space, "Hall", Space, "A">>)

\* C21 witness: the example document, its lines ended by CR LF, has been
\* parsed by parseICalContent.
C21_Witness ==
    /\ stage = "tab"
    /\ saved = ExampleLines
    /\ input = Join(ExampleLines, <<Return, Newline>>)
    /\ Len(output) = 1

----------------------------------------------------------------------------
\* Documents of several blocks

\* The k-th smallest of a set of numbers.
Nth(S, k) == CHOOSE e \in S : Cardinality({x \in S : x < e}) = k - 1

\* The lines of the block that logical line e closes, as a content.
BlockContent(sp, e) ==
    Join([k \in 1..(e - BlockStart(sp, e) + 1) |-> sp[BlockStart(sp, e) + k - 1].line],
         <<Newline>>)

\* The END:VEVENT lines that close a block which is dropped.
DroppedBlocks(sp) == {e \in 1..Len(sp) : Closes(sp, e)} \ ValidBlocks(sp)

\* C22: parseICalContent emits one event for each block that has a title
\* and a start, in the order of the document, and each is the event the
\* block gives when it is parsed alone, whatever blocks were dropped and
\* whatever unknown keys or lines without a colon came before.
C22_DropsAreLocal ==
    stage = "tab" =>
        LET sp == SpansOf(input)
            valid == ValidBlocks(sp)
        IN /\ Len(output) = Cardinality(valid)
           /\ \A k \in 1..Len(output) :
                 <<output[k]>> =
                    parseICalContent(BlockContent(sp, Nth(valid, k)),
                                     UndefinedId, UndefinedColor)

\* C22 witness: a block was dropped and a later block, with an unknown key
\* and a line without a colon in it, was emitted.
C22_Witness ==
    /\ stage = "tab"
    /\ Len(output) > 0
    /\ LET sp == SpansOf(input)
       IN \E d \in DroppedBlocks(sp), e \in ValidBlocks(sp) :
             /\ d < e
             /\ \E k \in BlockStart(sp, e)..e : sp[k].line = LineOther
             /\ \E k \in BlockStart(sp, e)..e : sp[k].line = LineUnknown

\* The last line of the block closed at e that sets property name, 0 when
\* the block has none.
LastOf(sp, e, name) ==
    LET own == {k \in (BlockStart(sp, e) + 1)..(e - 1) : IsProperty(sp[k].line, name)}
    IN IF own = {} THEN 0 ELSE CHOOSE k \in own : \A j \in own : j <= k

\* The text property name of the block closed at e.
OwnText(sp, e, name) ==
    IF LastOf(sp, e, name) = 0 THEN Undefined
    ELSE Some(unescapeValue(LineValue(sp[LastOf(sp, e, name)].line)))

\* The lines before the block closed at e that no END:VEVENT separates from
\* it: lines outside any block and lines of a block left open.
LeftBehind(sp, e) ==
    {j \in 1..(BlockStart(sp, e) - 1) :
        /\ IsProperty(sp[j].line, "SUMMARY") \/ IsProperty(sp[j].line, "LOCATION")
        /\ \A i \in j..BlockStart(sp, e) : sp[i].line # EndVEvent}

\* C29: parseICalContent emits events only at the END:VEVENT lines that
\* close a block, and the title, location, description and start of each
\* are those of the last such property line between the last BEGIN:VEVENT
\* and that END:VEVENT, undefined when the block has none.
C29_FieldsFromOwnBlock ==
    stage = "tab" =>
        LET sp == SpansOf(input)
            valid == ValidBlocks(sp)
        IN /\ Len(output) = Cardinality(valid)
           /\ \A k \in 1..Len(output) :
                 LET e == Nth(valid, k)
                     start == sp[LastOf(sp, e, "DTSTART")].line
                 IN /\ output[k].title = OwnText(sp, e, "SUMMARY")
                    /\ output[k].location = OwnText(sp, e, "LOCATION")
                    /\ output[k].description = OwnText(sp, e, "DESCRIPTION")
                    /\ output[k].startDate =
                          Some(parseDate(LineValue(start), KeyParts(start)))

\* C29 witness: an event was emitted for a block that has no LOCATION
\* while a LOCATION line of a block left open, or of no block, precedes it.
C29_Witness ==
    /\ stage = "tab"
    /\ LET sp == SpansOf(input)
       IN \E e \in ValidBlocks(sp) :
             /\ LastOf(sp, e, "LOCATION") = 0
             /\ \E j \in LeftBehind(sp, e) : IsProperty(sp[j].line, "LOCATION")
             /\ \E k \in 1..Len(output) : output[k].title = OwnText(sp, e, "SUMMARY")

----------------------------------------------------------------------------
\* The syncs of a new subscription

\* The calls of a bag that fetch, or are suspended on, subscription id, and
\* the calls of syncAll that have it still to come.
CallsOf(bag, id) == SumCopies({c \in BagToSet(bag) : c.sub = id}, bag)
ToCome(bag, id) ==
    SumCopies({c \in BagToSet(bag) :
                  \E k \in 1..Len(c.rest) : c.rest[k].id = id /\ c.rest[k].enabled}, bag)

\* C23: in the step that creates a subscription exactly one sync of it is
\* started or left to come.
C23_OneSyncOnCreation ==
    [][\A id \in SubIds(storedSubs') \ SubIds(storedSubs) :
          CallsOf(syncs', id) + ToCome(syncs', id) = 1]_vars

----------------------------------------------------------------------------
\* Continuation lines

\* The physical lines that start a logical line: the first line and every
\* line that does not begin with a space or a tab.
HeadLines(lines) ==
    {i \in 1..Len(lines) : i = 1 \/ ~BeginsWithSpaceOrTab(lines[i])}

\* The continuation lines after head line h, up to the next head line,
\* each without its first character.
TailsAfter(lines, h) ==
    LET later == {i \in HeadLines(lines) : i > h}
        next == IF later = {} THEN Len(lines) + 1
                ELSE CHOOSE i \in later : \A j \in later : i <= j
    IN [j \in 1..(next - h - 1) |-> Tail(lines[h + j])]

\* C24: the logical lines are, in the order of the input, the lines that
\* do not begin with a space or a tab (and the first line), each followed
\* by the continuation lines after it without their first character; a
\* continuation at the end of the input adds no line.
C24_ContinuationsJoined ==
    stage = "unfolded" =>
        LET lines == SplitLines(input)
            heads == HeadLines(lines)
        IN /\ Len(output) = Cardinality(heads)
           /\ \A k \in 1..Len(output) :
                 output[k] = lines[Nth(heads, k)]
                                \o Concat(TailsAfter(lines, Nth(heads, k)))

\* C24 witness: the input ends with two continuation lines in a row, which
\* were joined to the line before them.
C24_Witness ==
    /\ stage = "unfolded"
    /\ LET lines == SplitLines(input)
       IN /\ Len(lines) >= 3
          /\ BeginsWithSpaceOrTab(lines[Len(lines)])
          /\ BeginsWithSpaceOrTab(lines[Len(lines) - 1])
          /\ Len(output) = Len(lines) - 2

----------------------------------------------------------------------------
\* The frame of a sync

\* A subscription record without its lastSync.
Unstamped(sub) == [f \in DOMAIN sub \ {"lastSync"} |-> sub[f]]

\* C25: in a step in which a sync of subscription A succeeds, the stored
\* events that are not tagged with A's id are the same, in the same order,
\* before and after; the list of subscriptions keeps its records, and only
\* the lastSync of A's record may differ.
C25_SyncTouchesOnlyItsOwn ==
    [][SettledOk(settled') =>
          /\ Untagged(getEvents(storedEvents'), settled'.sub)
                = Untagged(Events, settled'.sub)
          /\ Len(storedSubs') = Len(storedSubs)
          /\ \A k \in 1..Len(storedSubs) :
                /\ Unstamped(storedSubs'[k]) = Unstamped(storedSubs[k])
                /\ storedSubs[k].id # settled'.sub
                      => storedSubs'[k] = storedSubs[k]]_vars

\* C25 witness: a sync of one subscription has just succeeded and stored
\* its events, while the store holds an event of another subscription and
\* an event without a subscription, and another subscription is stored.
C25_Witness ==
    /\ SettledOk(settled)
    /\ Tagged(Events, settled.sub) # <<>>
    /\ \E k, j \in 1..Len(Events) :
          /\ ~Events[k].subscriptionUrl.def
          /\ Events[j].subscriptionUrl.def
          /\ Events[j].subscriptionUrl.val # settled.sub
    /\ \E id \in SubIds(storedSubs) : id # settled.sub

----------------------------------------------------------------------------
\* The subscription source id of a stored event

\* The events of the next state that the store did not hold before.
NewlyStored ==
    LET after == getEvents(storedEvents')
    IN {after[k] : k \in {j \in 1..Len(after) : after[j].id \notin StoredIds(Events)}}

\* A stored event has a subscription source id exactly when its type is
\* subscription.
TaggedIffSubscriptionType ==
    \A k \in 1..Len(Events) :
        Events[k].subscriptionUrl.def <=> Events[k].type = "subscription"

\* The events that a file import stores have type imported and no
\* subscription source id.
ImportsUntagged ==
    [][\A content \in Documents :
          /\ IncludesMarker(content)
          /\ storedEvents' = importICalEvents(storedEvents, content,
                                 FirstUserId(nextId, Len(ParsedFiles[content])))
          => \A e \in NewlyStored :
                e.type = "imported" /\ ~e.subscriptionUrl.def]_vars

\* The subscription source id of an event is the id of a subscription that
\* is stored when the event is stored.
TaggedByStoredSubscription ==
    [][\A e \in NewlyStored :
          e.subscriptionUrl.def => e.subscriptionUrl.val \in SubIds(storedSubs')]_vars

\* C26: in every state a stored event has a subscription source id exactly
\* when its type is subscription, that id is the id of a subscription
\* stored at the time the event is stored, and the events of a file import
\* have type imported and no subscription source id.
C26_SourceIdOfStoredSubscription ==
    /\ []TaggedIffSubscriptionType
    /\ TaggedByStoredSubscription
    /\ ImportsUntagged

----------------------------------------------------------------------------
\* A sync that outlives its subscription

\* C30: in a step in which a sync succeeds for a subscription that is no
\* longer stored, the list of subscriptions stays as it is: no record with
\* the deleted id is stored and no lastSync is written.
C30_DeletedStaysDeleted ==
    [][SettledOk(settled') /\ settled'.sub \notin SubIds(storedSubs)
          => /\ storedSubs' = storedSubs
             /\ settled'.sub \notin SubIds(storedSubs')]_vars

\* C30 witness: a sync has just succeeded and stored its events for a
\* subscription deleted while the sync was suspended, and another
\* subscription is stored.
C30_Witness ==
    /\ SettledOk(settled)
    /\ settled.sub \notin SubIds(storedSubs)
    /\ hist[settled.sub].late
    /\ Tagged(Events, settled.sub) # <<>>
    /\ storedSubs # <<>>

----------------------------------------------------------------------------
\* Events made in the editor

\* The editor is open on an event that the editor created: the ids handed
\* out since the component was mounted.
OpenOnCreated ==
    /\ showEventModal
    /\ selectedEvent # <<>>
    /\ selectedEvent[1].id <= CatalogNextIds.user

\* The form with its submit button is rendered, and so is the Delete button.
EditableAndDeletable == ~isReadOnly(selectedEvent) /\ HasOnDelete(selectedEvent)

\* C28: whenever the editor is open on an event that was created in the
\* editor, whatever its type, the form to edit it and the button to delete
\* it are there.
C28_CreatedStaysEditable == OpenOnCreated => EditableAndDeletable

\* An event created in the editor with a type other than exam is reopened
\* with the form and the Delete button.
CreatedEditableUnlessExam ==
    OpenOnCreated /\ selectedEvent[1].type # "exam" => EditableAndDeletable

----------------------------------------------------------------------------
\* Edits made while a sync is suspended

\* C27: when a sync succeeds that was suspended while a handler added,
\* updated or deleted an event, the store holds that event afterwards as
\* the handler left it: the added or updated event as it was saved, and no
\* event with the id of the deleted one.
C27_EditsSurviveSync ==
    [][SettledOk(settled') /\ settled'.sawEdit # <<>>
          => WithIdOnly(getEvents(storedEvents'), settled'.sawEdit[1].id)
                = settled'.sawEdit[1].left]_vars

\* C27 witness: a sync has just succeeded and stored its events, and while
\* it was suspended the editor updated a stored event.
C27_Witness ==
    /\ SettledOk(settled)
    /\ settled.sawEdit # <<>>
    /\ settled.sawEdit[1].kind = "update"
    /\ settled.sawEdit[1].left # <<>>
    /\ Tagged(Events, settled.sub) # <<>>

============================================================================
